---- MODULE Spec2Model ----
(***************************************************************************)
(* A model of the crawl/extraction engine of news_automation.py: the       *)
(* paragraph classifier, the link resolver, the fetcher, the extraction    *)
(* cascade, the acceptance gate, the crawl orchestrators, the HTTP         *)
(* handlers that call them and the SQLite store.                           *)
(*                                                                         *)
(* Text is a sequence of one-character strings, so that normalisation,     *)
(* case folding, substring search and percent-decoding are computed and    *)
(* not assumed.  A percent escape ("%3A", "%253A") is one element of the   *)
(* sequence; an accented letter is one element named in ASCII ("eacute").  *)
(* Python's None is the value Null, a non-string JSON value is NonStr.     *)
(***************************************************************************)
EXTENDS Integers, Sequences, FiniteSets, TLC

\* ------------------------------------------------------------------ values
\* Python's None.  A one-element sequence whose element is no character, so
\* that it can be compared with any text.
Null == <<"None">>

\* A truthy JSON value that is not a string (a list, a number, an object).
NonStr == <<"NonStr">>

\* Python truthiness of an optional string: None and "" are falsy.
Truthy(v) == v # Null /\ v # <<>>

\* x or y
Or(x, y) == IF Truthy(x) THEN x ELSE y

\* s[:n]
Take(s, n) == SubSeq(s, 1, IF Len(s) < n THEN Len(s) ELSE n)

\* the elements of a sequence
Range(s) == {s[i] : i \in 1..Len(s)}

\* ------------------------------------------------------------------- text
WhiteSpace == {" ", "\n", "\t"}

UpperLetters == <<"A","B","C","D","E","F","G","H","I","J","K","L","M","N","O","P","Q","R","S","T","U","V","W","X","Y","Z","Eacute","Uacute">>

LowerLetters == <<"a","b","c","d","e","f","g","h","i","j","k","l","m","n","o","p","q","r","s","t","u","v","w","x","y","z","eacute","uacute">>

Digits == {"0","1","2","3","4","5","6","7","8","9"}

\* \w of Python's re on str: letters, digits and the underscore
IsWordChar(c) == c \in Range(UpperLetters) \cup Range(LowerLetters) \cup Digits \cup {"_"}

\* str.lower() on one character
LowerChar(c) ==
    IF \E i \in 1..Len(UpperLetters) : UpperLetters[i] = c
    THEN LowerLetters[CHOOSE i \in 1..Len(UpperLetters) : UpperLetters[i] = c]
    ELSE c

\* str.lower()
Lower(s) == [i \in 1..Len(s) |-> LowerChar(s[i])]

\* sub in s
Contains(s, sub) ==
    \/ Len(sub) = 0
    \/ \E i \in 0..(Len(s) - Len(sub)) : s[i + 1] = sub[1] /\ SubSeq(s, i + 1, i + Len(sub)) = sub

\* s.startswith(pre)
StartsWith(s, pre) == Len(s) >= Len(pre) /\ SubSeq(s, 1, Len(pre)) = pre

\* the index of the first element of s that is in cs, 0 when there is none
IndexOfAny(s, cs) ==
    IF \E i \in 1..Len(s) : s[i] \in cs
    THEN CHOOSE i \in 1..Len(s) : s[i] \in cs /\ \A j \in 1..(i - 1) : s[j] \notin cs
    ELSE 0

\* the start of the first occurrence of sub in s, 0 when there is none
Find(s, sub) ==
    IF Contains(s, sub)
    THEN CHOOSE i \in 1..(Len(s) - Len(sub) + 1) :
            /\ SubSeq(s, i, i + Len(sub) - 1) = sub
            /\ \A j \in 1..(i - 1) : SubSeq(s, j, j + Len(sub) - 1) # sub
    ELSE 0

\* re.sub(r"\s+", " ", s): every run of whitespace becomes one space
RECURSIVE CollapseWs(_)
CollapseWs(s) ==
    IF s = <<>> THEN <<>>
    ELSE IF Head(s) \in WhiteSpace
         THEN IF Len(s) > 1 /\ s[2] \in WhiteSpace
              THEN CollapseWs(Tail(s))
              ELSE <<" ">> \o CollapseWs(Tail(s))
         ELSE <<Head(s)>> \o CollapseWs(Tail(s))

\* str.strip()
RECURSIVE LStrip(_)
LStrip(s) == IF s # <<>> /\ Head(s) \in WhiteSpace THEN LStrip(Tail(s)) ELSE s

RECURSIVE RStrip(_)
RStrip(s) ==
    IF s # <<>> /\ s[Len(s)] \in WhiteSpace THEN RStrip(SubSeq(s, 1, Len(s) - 1)) ELSE s

Strip(s) == RStrip(LStrip(s))

\* the text without its leading newlines
RECURSIVE LStripNl(_)
LStripNl(s) == IF s # <<>> /\ Head(s) = "\n" THEN LStripNl(Tail(s)) ELSE s

\* re.split(sep+, s) for a one-character separator: the pieces between runs
\* of sep (an empty first or last piece included, as re.split returns them)
RECURSIVE SplitRuns(_, _)
SplitRuns(s, sep) ==
    LET i == IndexOfAny(s, {sep})
    IN  IF i = 0 THEN <<s>>
        ELSE LET rest == SubSeq(s, i + 1, Len(s))
                 k == IF \E j \in 1..Len(rest) : rest[j] # sep
                      THEN CHOOSE j \in 1..Len(rest) :
                              rest[j] # sep /\ \A m \in 1..(j - 1) : rest[m] = sep
                      ELSE Len(rest) + 1
             IN  <<SubSeq(s, 1, i - 1)>> \o SplitRuns(SubSeq(rest, k, Len(rest)), sep)

\* str.split(sep) for a one-character separator
RECURSIVE Split(_, _)
Split(s, sep) ==
    LET i == IndexOfAny(s, {sep})
    IN  IF i = 0 THEN <<s>>
        ELSE <<SubSeq(s, 1, i - 1)>> \o Split(SubSeq(s, i + 1, Len(s)), sep)

\* [f(x) for x in xs if f(x)] for a filter f that returns Null to drop
RECURSIVE DropNull(_)
DropNull(xs) ==
    IF xs = <<>> THEN <<>>
    ELSE IF Head(xs) = Null THEN DropNull(Tail(xs))
         ELSE <<Head(xs)>> \o DropNull(Tail(xs))

\* the order-preserving removal of repeated elements (the seen-set loops)
RECURSIVE Dedup(_, _)
Dedup(xs, seen) ==
    IF xs = <<>> THEN <<>>
    ELSE IF Head(xs) \in seen THEN Dedup(Tail(xs), seen)
         ELSE <<Head(xs)>> \o Dedup(Tail(xs), seen \cup {Head(xs)})

\* ------------------------------------------------- paragraph classifier
BAD_SNIPPETS ==
    { <<"l","e","i","a"," ","m","a","i","s">>, <<"l","e","i","a"," ","t","a","m","b","eacute","m">>, <<"s","a","i","b","a"," ","m","a","i","s">>, <<"v","e","j","a"," ","t","a","m","b","eacute","m">>, <<"v","e","j","a"," ","m","a","i","s">>,
      <<"c","o","n","t","i","n","u","e"," ","l","e","n","d","o">>, <<"c","o","n","t","i","n","u","e"," ","a"," ","l","e","r">>, <<"c","l","i","q","u","e"," ","a","q","u","i">>, <<"a","c","e","s","s","e"," ","a","q","u","i">>, <<"i","n","s","c","r","e","v","a","-","s","e">>,
      <<"a","s","s","i","n","e">>, <<"n","e","w","s","l","e","t","t","e","r">>, <<"c","o","m","p","a","r","t","i","l","h","e">>, <<"i","n","s","t","a","g","r","a","m">>, <<"t","w","i","t","t","e","r">>, <<"x",".","c","o","m">>,
      <<"f","a","c","e","b","o","o","k">>, <<"p","u","b","l","i","c","i","d","a","d","e">>, <<"a","n","uacute","n","c","i","o">>, <<"v","o","l","t","a","r"," ","a","o"," ","t","o","p","o">>, <<"c","o","o","k","i","e","s">> }

\* the verbs of the regex ^(?:leia|veja|saiba|assine|clique)\b
CTA_VERBS == { <<"l","e","i","a">>, <<"v","e","j","a">>, <<"s","a","i","b","a">>, <<"a","s","s","i","n","e">>, <<"c","l","i","q","u","e">> }

\* the minimum length of a paragraph
MinParagraphLen == 16

\* re.match(r"^(?:leia|veja|saiba|assine|clique)\b", low)
MatchesCtaVerb(low) ==
    \E v \in CTA_VERBS :
        /\ StartsWith(low, v)
        /\ (Len(low) = Len(v) \/ ~IsWordChar(low[Len(v) + 1]))

\* clean_paragraph: the whitespace-normalised text, or None when it is rejected
clean_paragraph(p) ==
    LET txt == Strip(CollapseWs(IF p = Null THEN <<>> ELSE p))
        low == Lower(txt)
    IN  IF txt = <<>> THEN Null
        ELSE IF \E b \in BAD_SNIPPETS : Contains(low, b) THEN Null
        ELSE IF Len(txt) < MinParagraphLen THEN Null
        ELSE IF MatchesCtaVerb(low) THEN Null
        ELSE txt

\* [clean_paragraph(x) for x in xs], then the comprehension that drops None
CleanAll(xs) == DropNull([i \in 1..Len(xs) |-> clean_paragraph(xs[i])])

\* -------------------------------------------------------------------- URLs
SchemeChars == Range(UpperLetters) \cup Range(LowerLetters) \cup Digits \cup {"+", "-", "."}

\* urllib.parse.urlsplit raises ValueError("Invalid IPv6 URL") when the
\* netloc holds one square bracket without the other.
NetlocInvalid(netloc) ==
    ("[" \in Range(netloc)) # ("]" \in Range(netloc))

\* the part of s before the first element in cs (all of s when there is none)
Before(s, cs) == IF IndexOfAny(s, cs) = 0 THEN s ELSE SubSeq(s, 1, IndexOfAny(s, cs) - 1)

\* the part of s after the first element in cs (empty when there is none)
After(s, cs) == IF IndexOfAny(s, cs) = 0 THEN <<>> ELSE SubSeq(s, IndexOfAny(s, cs) + 1, Len(s))

\* the part of s from the first element in cs on (empty when there is none)
From(s, cs) == IF IndexOfAny(s, cs) = 0 THEN <<>> ELSE SubSeq(s, IndexOfAny(s, cs), Len(s))

\* whether the text before the colon at c is a URL scheme
has_scheme(url, c) ==
    /\ c > 1
    /\ url[1] \in Range(UpperLetters) \cup Range(LowerLetters)
    /\ \A j \in 1..(c - 1) : url[j] \in SchemeChars

\* urlparse after scheme and netloc: fragment, then query, then path
urlparse_tail(scheme, netloc, rest) ==
    [ scheme   |-> scheme,
      netloc   |-> netloc,
      path     |-> Before(Before(rest, {"#"}), {"?"}),
      query    |-> After(Before(rest, {"#"}), {"?"}),
      fragment |-> After(rest, {"#"}) ]

\* urlparse after the scheme: the netloc follows "//" up to "/", "?" or "#"
urlparse_net(scheme, rest) ==
    IF StartsWith(rest, <<"/", "/">>)
    THEN urlparse_tail(scheme, Before(SubSeq(rest, 3, Len(rest)), {"/", "?", "#"}),
                       From(SubSeq(rest, 3, Len(rest)), {"/", "?", "#"}))
    ELSE urlparse_tail(scheme, <<>>, rest)

\* urlparse given the place c of the first colon (0 when there is none)
urlparse_at(url, c) ==
    IF has_scheme(url, c)
    THEN urlparse_net(Lower(SubSeq(url, 1, c - 1)), SubSeq(url, c + 1, Len(url)))
    ELSE urlparse_net(<<>>, url)

\* urllib.parse.urlparse: scheme, netloc, path, query, fragment of a URL
\* (the rarely used ;params are left in the path)
urlparse(url) == urlparse_at(url, IndexOfAny(url, {":"}))

\* whether urlparse(url) raises
urlparse_raises(url) == NetlocInvalid(urlparse(url).netloc)

\* The percent escapes of the model and what one round of decoding makes of
\* each: Escaped[i] decodes to Unescaped[i].
Escaped ==
    << "%3A", "%2F", "%3F", "%3D", "%26", "%41",
       "%253A", "%252F", "%253F", "%253D", "%2526", "%2541",
       "%25253A", "%25252F", "%25253F", "%25253D", "%252526", "%252541" >>

Unescaped ==
    << ":", "/", "?", "=", "&", "A",
       "%3A", "%2F", "%3F", "%3D", "%26", "%41",
       "%253A", "%252F", "%253F", "%253D", "%2526", "%2541" >>

unquote_char(c) ==
    IF \E i \in 1..Len(Escaped) : Escaped[i] = c
    THEN Unescaped[CHOOSE i \in 1..Len(Escaped) : Escaped[i] = c]
    ELSE c

\* urllib.parse.unquote: one round of percent-decoding
unquote(s) == [i \in 1..Len(s) |-> unquote_char(s[i])]

\* unquote(x.replace("+", " ")), as parse_qs decodes names and values
unquote_plus(s) == unquote([i \in 1..Len(s) |-> IF s[i] = "+" THEN " " ELSE s[i]])

\* parse_qs(query).get(key, [None])[0]: the decoded value of the first field
\* name=value with that decoded name and a non-blank value; fields without
\* "=" and blank values are skipped
RECURSIVE QsFirst(_, _)
QsFirst(fields, key) ==
    IF fields = <<>> THEN Null
    ELSE LET nv == Head(fields)
             e == IndexOfAny(nv, {"="})
         IN  IF /\ e > 0
                /\ e < Len(nv)
                /\ unquote_plus(SubSeq(nv, 1, e - 1)) = key
             THEN unquote_plus(SubSeq(nv, e + 1, Len(nv)))
             ELSE QsFirst(Tail(fields), key)

parse_qs_get(query, key) == QsFirst(Split(query, "&"), key)

\* unwrap_special_links on a URL urlparse accepted as u
unwrap_parsed(url, u) ==
    IF /\ Contains(Lower(u.netloc), <<"l",".","f","a","c","e","b","o","o","k",".","c","o","m">>)
       /\ StartsWith(u.path, <<"/","l",".","p","h","p">>)
       /\ Truthy(parse_qs_get(u.query, <<"u">>))
    THEN unquote(parse_qs_get(u.query, <<"u">>))
    ELSE IF /\ Contains(Lower(u.netloc), <<"f","a","c","e","b","o","o","k",".","c","o","m">>)
            /\ Contains(u.query, <<"h","r","e","f","=">>)
            /\ Truthy(parse_qs_get(u.query, <<"h","r","e","f">>))
    THEN unquote(parse_qs_get(u.query, <<"h","r","e","f">>))
    ELSE url

\* unwrap_special_links: the target of a Facebook redirect link, decoded;
\* any other URL, and any URL urlparse rejects, unchanged
unwrap_special_links(url) ==
    IF urlparse_raises(url) THEN url ELSE unwrap_parsed(url, urlparse(url))

\* is_google_news
is_google_news(u) ==
    IF urlparse_raises(u) THEN FALSE
    ELSE Contains(Lower(urlparse(u).netloc), <<"n","e","w","s",".","g","o","o","g","l","e",".">>)

\* re.sub(r"^www\.", "", netloc)
strip_www(n) == IF StartsWith(n, <<"w","w","w",".">>) THEN SubSeq(n, 5, Len(n)) ELSE n

\* hostname_from_url: the netloc without a leading "www."
hostname_from_url(url) ==
    IF urlparse_raises(url) THEN <<"f","o","n","t","e">> ELSE strip_www(urlparse(url).netloc)

\* whether urljoin(base, url) raises (either URL is rejected by urlparse)
urljoin_raises(base, url) ==
    base # <<>> /\ url # <<>> /\ (urlparse_raises(base) \/ urlparse_raises(url))

\* the directory of a path: up to and including its last "/"
RECURSIVE DirOf(_)
DirOf(path) ==
    IF path = <<>> \/ path[Len(path)] = "/" THEN path
    ELSE DirOf(SubSeq(path, 1, Len(path) - 1))

\* scheme://netloc of a parsed URL
url_root(b) == b.scheme \o <<":","/","/">> \o b.netloc

\* urljoin on the parsed base b and the parsed reference u
urljoin_parsed(base, url, b, u) ==
    IF u.scheme # <<>> THEN url
    ELSE IF b.scheme = <<>> THEN url
    ELSE IF u.netloc # <<>> THEN b.scheme \o <<":">> \o url
    ELSE IF StartsWith(url, <<"/">>) THEN url_root(b) \o url
    ELSE IF StartsWith(url, <<"?">>) THEN url_root(b) \o b.path \o url
    ELSE url_root(b) \o (IF DirOf(b.path) = <<>> THEN <<"/">> ELSE DirOf(b.path)) \o url

\* urllib.parse.urljoin for references without dot segments: an absolute
\* reference stands, a //host reference takes the base's scheme, a /path
\* reference the base's scheme and host, any other is resolved against the
\* directory of the base's path
urljoin(base, url) ==
    IF base = <<>> THEN url
    ELSE IF url = <<>> THEN base
    ELSE urljoin_parsed(base, url, urlparse(base), urlparse(url))

\* absolutize_url: urljoin(base or "", src), src itself when that raises
absolutize_url(src, base) ==
    IF ~Truthy(src) THEN Null
    ELSE IF urljoin_raises(Or(base, <<>>), src) THEN src
    ELSE urljoin(Or(base, <<>>), src)

\* stable_id: the URL-safe base64 of the first 9 bytes of SHA-256(url).  The
\* digest is symbolic: equal for equal URLs, different for different URLs.
stable_id(url) == <<"sha256[:9].b64">> \o url

\* iso: the ISO-8601 text of an instant (instants are integers)
iso(dt) == <<"utc", dt>>

\* re.sub(r"\s+", "-", s) on a text whose whitespace runs are single spaces
dashes(low) == [i \in 1..Len(low) |-> IF low[i] = " " THEN "-" ELSE low[i]]

\* the fallback slugify: lower case, whitespace runs to "-", and only
\* [a-z0-9-] kept
slugify(s) ==
    SelectSeq(dashes(CollapseWs(Strip(Lower(s)))),
              LAMBDA c : c \in (Range(LowerLetters) \ {"eacute", "uacute"}) \cup Digits \cup {"-"})

\* is_ilhabela_article: re.search of
\* https?://(?:www\.)?ilhabela\.sp\.gov\.br/portal/noticias/0/3/\d+/ , ignoring case
IlhabelaPrefixes ==
    { <<"h","t","t","p",":","/","/","i","l","h","a","b","e","l","a",".","s","p",".","g","o","v",".","b","r","/","p","o","r","t","a","l","/","n","o","t","i","c","i","a","s","/","0","/","3","/">>,
      <<"h","t","t","p","s",":","/","/","i","l","h","a","b","e","l","a",".","s","p",".","g","o","v",".","b","r","/","p","o","r","t","a","l","/","n","o","t","i","c","i","a","s","/","0","/","3","/">>,
      <<"h","t","t","p",":","/","/","w","w","w",".","i","l","h","a","b","e","l","a",".","s","p",".","g","o","v",".","b","r","/","p","o","r","t","a","l","/","n","o","t","i","c","i","a","s","/","0","/","3","/">>,
      <<"h","t","t","p","s",":","/","/","w","w","w",".","i","l","h","a","b","e","l","a",".","s","p",".","g","o","v",".","b","r","/","p","o","r","t","a","l","/","n","o","t","i","c","i","a","s","/","0","/","3","/">> }

is_ilhabela_article(href) ==
    LET low == Lower(href)
    IN  \E pre \in IlhabelaPrefixes : \E i \in 1..(Len(low) - Len(pre)) :
            LET rest == SubSeq(low, i + Len(pre), Len(low))
                k == IndexOfAny(rest, {"/"})
            IN  /\ SubSeq(low, i, i + Len(pre) - 1) = pre
                /\ k > 1
                /\ \A j \in 1..(k - 1) : rest[j] \in Digits

\* ------------------------------------------------------------ the fetcher
\* What the network does to one GET: either the request raises (timeout,
\* DNS failure, connection reset), or a response arrives with its status,
\* its Content-Type, the URL after redirects and its body (a Page, below).
\*   [raises |-> BOOLEAN, status |-> Int, ctype |-> text, url |-> text, body |-> Page]
\* and, when it raises, error: the text of the exception.

\* the Content-Type test of fetch_html_ex
IsHtmlFamily(ctype) ==
    \/ Contains(ctype, <<"t","e","x","t","/","h","t","m","l">>)
    \/ Contains(ctype, <<"a","p","p","l","i","c","a","t","i","o","n","/","x","h","t","m","l">>)
    \/ StartsWith(ctype, <<"t","e","x","t","/">>)

\* the page of a request that yielded no body: html is None
NoHtml == [body |-> "none"]

\* how much of the text of an exception info.error keeps
MaxErrorLen == 300

\* fetch_html_ex: (html, info).  html is None unless the status is 2xx and
\* the content type of the HTML family; info.final_url is the requested URL
\* until a response has arrived, info.error None unless the request raised.
fetch_html_ex(url, resp) ==
    IF resp.raises
    THEN [ html |-> NoHtml,
           info |-> [request_url |-> url, ok |-> FALSE, status |-> -1, ctype |-> <<>>,
                     final_url |-> url, error |-> Take(resp.error, MaxErrorLen)] ]
    ELSE LET good == 200 <= resp.status /\ resp.status < 300 /\ IsHtmlFamily(resp.ctype)
         IN  [ html |-> IF good THEN resp.body ELSE NoHtml,
               info |-> [request_url |-> url, ok |-> good, status |-> resp.status,
                         ctype |-> resp.ctype, final_url |-> resp.url, error |-> Null] ]

\* the truth value of html: None and the empty text are falsy
HtmlTruthy(html) == html.body = "html"

\* ------------------------------------------------------------------ pages
\* An HTML document is the record of what BeautifulSoup and the extraction
\* libraries report of it:
\*   body        "html" (a non-empty text), "empty" (the text "")
\*   ld          the <script type="application/ld+json"> blocks, in order
\*   og_title    content of <meta property="og:title">, Null when absent
\*   title_tag   stripped text of <title>, Null when absent or blank
\*   h1          stripped text of the first <h1>, Null when absent or blank
\*   meta_images content/href of the image meta tags present, in the order
\*               of extract_og_twitter_image's preferences
\*   fig_images  src of the <img> of each figure/picture of the content root
\*   root_images src of each <img> of the content root
\*   doc_images  src of each <img> of the document
\*   root_ps     text of each <p> of the content root outside script, nav,
\*               aside, footer, header, noscript, figure and style
\*   root_lists  text of each <ul>/<ol> of the content root
\*   readability [ok, ps]: whether readability ran, the <p> of its summary
\*   trafilatura the text trafilatura extracts, Null when the library is
\*               absent, raises or returns None
\*   boilerpipe  [ok, text]: whether boilerpy3 ran, and its text
\*   text        soup.get_text("\n", strip=True)
\*   amphtml     href of <link rel="amphtml">, Null when absent
\*   refresh     content of <meta http-equiv="refresh">, Null when absent
\*   anchors     href of each <a href>
\*   raw_urls    the matches of https?://[^\s'"<>]+ in the source text
\*   css         <<selector, elements>> pairs: what select() returns for a
\*               selector, each element [text, content, src, data_src, href]
\* A JSON-LD block is
\*   [json |-> "ok" | "bad", shape |-> "dict" | "other", type, headline,
\*    name, image, body]
\* where "bad" is text json.loads rejects, "other" is JSON that is neither an
\* object nor a list starting with one, type is the text of "@type" (Null
\* when absent, NonStr when it is a list), and image is the value left by
\* the list/dict unwrapping of parse_schema_org.

ARTICLE_TYPES == { <<"a","r","t","i","c","l","e">>, <<"n","e","w","s","a","r","t","i","c","l","e">>, <<"b","l","o","g","p","o","s","t","i","n","g">> }

EmptySchema == [headline |-> Null, image |-> Null, paragraphs |-> <<>>]

\* parse_schema_org: headline, image and paragraphs of the first JSON-LD
\* block of an article type.  Any exception ends the scan with what has been
\* collected so far.
RECURSIVE parse_ld_blocks(_)
parse_ld_blocks(blocks) ==
    IF Len(blocks) = 0 THEN EmptySchema
    ELSE LET b == Head(blocks)
         IN  IF b.json = "bad" THEN parse_ld_blocks(Tail(blocks))
             ELSE IF b.shape = "other" \/ b.type = NonStr THEN EmptySchema
             ELSE IF \E t \in ARTICLE_TYPES : Contains(Lower(IF b.type = Null THEN <<>> ELSE b.type), t)
                  THEN [ headline   |-> Or(b.headline, b.name),
                         image      |-> b.image,
                         paragraphs |-> IF Truthy(b.body) /\ b.body # NonStr
                                        THEN CleanAll(SplitRuns(b.body, "\n"))
                                        ELSE <<>> ]
                  ELSE parse_ld_blocks(Tail(blocks))

parse_schema_org(html) == parse_ld_blocks(html.ld)

\* title_from_html given the schema headline sc: sc, og:title, <title>, <h1>
first_title(sc, html) ==
    IF Truthy(sc) THEN sc
    ELSE IF Truthy(html.og_title) THEN Strip(html.og_title)
    ELSE IF Truthy(html.title_tag) THEN html.title_tag
    ELSE IF Truthy(html.h1) THEN html.h1
    ELSE Null

\* title_from_html: schema headline, og:title, <title>, <h1>
title_from_html(html) == first_title(parse_schema_org(html).headline, html)

\* extract_og_twitter_image: the first non-empty meta image, stripped
RECURSIVE FirstTruthy(_)
FirstTruthy(xs) ==
    IF Len(xs) = 0 THEN Null
    ELSE IF Truthy(Head(xs)) THEN Head(xs) ELSE FirstTruthy(Tail(xs))

extract_og_twitter_image(html) ==
    LET src == FirstTruthy(html.meta_images)
    IN  IF src = Null THEN Null ELSE Strip(src)

\* how many figures and images the image searches look at
FigureLimit == 6

ImageLimit == 10

FigureSkip == { <<".","s","v","g">>, <<"s","p","r","i","t","e">>, <<"d","a","t","a",":","i","m","a","g","e">> }

ImageSkip == FigureSkip \cup { <<"l","o","g","o">>, <<"i","c","o","n">> }

\* the first src that is non-empty and holds none of the skip markers
RECURSIVE FirstImage(_, _)
FirstImage(srcs, skip) ==
    IF Len(srcs) = 0 THEN Null
    ELSE IF Truthy(Head(srcs)) /\ ~\E x \in skip : Contains(Lower(Head(srcs)), x)
         THEN Head(srcs)
         ELSE FirstImage(Tail(srcs), skip)

\* extract_img_from_root
extract_img_from_root(html) ==
    LET fig == FirstImage(Take(html.fig_images, FigureLimit), FigureSkip)
    IN  IF fig # Null THEN fig
        ELSE FirstImage(Take(html.root_images, ImageLimit), ImageSkip)

\* image_from_html_best
image_from_html_best(html, base_for_abs) ==
    LET meta == extract_og_twitter_image(html)
        root == extract_img_from_root(html)
        doc == FirstImage(Take(html.doc_images, ImageLimit), ImageSkip)
    IN  IF Truthy(meta) THEN absolutize_url(meta, base_for_abs)
        ELSE IF Truthy(root) THEN absolutize_url(root, base_for_abs)
        ELSE IF doc # Null THEN absolutize_url(doc, base_for_abs)
        ELSE Null

\* the thresholds of paragraphs_from_html
MinParagraphs == 2

MinListLen == 120

MaxListParagraphs == 8

MaxLibParagraphs == 12

MaxRawParagraphs == 8

MaxParagraphs == 14

\* the list fallback: each list text that cleans to more than MinListLen
\* characters is appended, until MaxListParagraphs are held
RECURSIVE AppendLists(_, _)
AppendLists(ps, lists) ==
    IF Len(lists) = 0 THEN ps
    ELSE LET txt == clean_paragraph(Head(lists))
             ps1 == IF txt # Null /\ Len(txt) > MinListLen THEN Append(ps, txt) ELSE ps
         IN  IF Len(ps1) >= MaxListParagraphs THEN ps1 ELSE AppendLists(ps1, Tail(lists))

\* re.split(r"\n{2,}", s): the pieces between runs of two or more newlines
RECURSIVE SplitBlank(_)
SplitBlank(s) ==
    LET at == IF \E i \in 1..(Len(s) - 1) : s[i] = "\n" /\ s[i + 1] = "\n"
              THEN CHOOSE i \in 1..(Len(s) - 1) :
                      /\ s[i] = "\n" /\ s[i + 1] = "\n"
                      /\ \A j \in 1..(i - 1) : ~(s[j] = "\n" /\ s[j + 1] = "\n")
              ELSE 0
    IN  IF at = 0 THEN <<s>>
        ELSE <<SubSeq(s, 1, at - 1)>> \o SplitBlank(LStripNl(SubSeq(s, at + 2, Len(s))))

\* the stages of paragraphs_from_html, each given the paragraphs so far:
\* the lists, readability, trafilatura (which replaces them), boilerpipe
\* (which replaces them when it gives any), the raw text
stage_lists(html, ps) ==
    IF Len(ps) < MinParagraphs THEN AppendLists(ps, html.root_lists) ELSE ps

stage_readability(html, ps) ==
    IF Len(ps) < MinParagraphs /\ html.readability.ok
    THEN ps \o CleanAll(html.readability.ps)
    ELSE ps

stage_trafilatura(html, ps) ==
    IF Len(ps) < MinParagraphs /\ Truthy(html.trafilatura)
    THEN Take(CleanAll(SplitRuns(html.trafilatura, "\n")), MaxLibParagraphs)
    ELSE ps

boilerpipe_paragraphs(html) ==
    IF html.boilerpipe.ok
    THEN Take(CleanAll(SplitRuns(html.boilerpipe.text, "\n")), MaxLibParagraphs)
    ELSE <<>>

stage_boilerpipe(html, ps) ==
    IF Len(ps) < MinParagraphs /\ Len(boilerpipe_paragraphs(html)) > 0
    THEN boilerpipe_paragraphs(html)
    ELSE ps

stage_raw(html, ps) ==
    IF Len(ps) = 0 THEN Take(CleanAll(SplitBlank(html.text)), MaxRawParagraphs) ELSE ps

\* paragraphs_from_html: <p> of the content root, then lists, readability,
\* trafilatura, boilerpipe and the raw text, then the removal of repeats
paragraphs_from_html(html) ==
    Take(Dedup(stage_raw(html, stage_boilerpipe(html, stage_trafilatura(html,
                 stage_readability(html, stage_lists(html, CleanAll(html.root_ps)))))), {}),
         MaxParagraphs)

\* select()/select_one() raise SelectorSyntaxError on a malformed selector:
\* here, one with an unbalanced bracket
select_raises(sel) == ("[" \in Range(sel)) # ("]" \in Range(sel))

\* soup.select(sel): the elements the selector matches
RECURSIVE SelectIn(_, _)
SelectIn(css, sel) ==
    IF Len(css) = 0 THEN <<>>
    ELSE IF Head(css)[1] = sel THEN Head(css)[2] ELSE SelectIn(Tail(css), sel)

select(html, sel) == SelectIn(html.css, sel)

\* el.get("content") or el.get("src") or el.get("data-src")
element_image(el) == Or(el.content, Or(el.src, el.data_src))

\* re.search(r"url=(.+)", content, flags=re.I) and group(1).strip().strip('\'"')
RECURSIVE StripQuotes(_)
StripQuotes(s) ==
    IF Len(s) > 0 /\ Head(s) \in {"'", "\""} THEN StripQuotes(Tail(s))
    ELSE IF Len(s) > 0 /\ s[Len(s)] \in {"'", "\""} THEN StripQuotes(SubSeq(s, 1, Len(s) - 1))
    ELSE s

refresh_target(content) ==
    LET at == Find(Lower(content), <<"u","r","l","=">>)
        nl == IF at = 0 THEN 0 ELSE IndexOfAny(SubSeq(content, at + 4, Len(content)), {"\n"})
        grp == IF at = 0 THEN <<>>
               ELSE IF nl = 0 THEN SubSeq(content, at + 4, Len(content))
               ELSE SubSeq(content, at + 4, at + 2 + nl)
    IN  IF at = 0 \/ Len(grp) = 0 THEN Null ELSE StripQuotes(Strip(grp))

IsGoogleHost(href) ==
    LET host == Lower(urlparse(href).netloc)
    IN  Contains(host, <<"g","o","o","g","l","e">>) \/ Contains(host, <<"g","s","t","a","t","i","c",".","c","o","m">>)

\* the first anchor whose absolute href is http(s) and not on a Google host
RECURSIVE FirstExternalAnchor(_, _)
FirstExternalAnchor(hrefs, base_url) ==
    IF Len(hrefs) = 0 THEN Null
    ELSE LET href == urljoin(base_url, Head(hrefs))
         IN  IF ~IsGoogleHost(href) /\ (StartsWith(href, <<"h","t","t","p",":","/","/">>) \/ StartsWith(href, <<"h","t","t","p","s",":","/","/">>))
             THEN href
             ELSE FirstExternalAnchor(Tail(hrefs), base_url)

RECURSIVE FirstExternalUrl(_)
FirstExternalUrl(urls) ==
    IF Len(urls) = 0 THEN Null
    ELSE IF ~IsGoogleHost(Head(urls)) THEN Head(urls) ELSE FirstExternalUrl(Tail(urls))

\* whether the link scan of extract_external_from_gnews raises before it
\* returns: a URL that urljoin or urlparse rejects, met before the first
\* external link
RECURSIVE AnchorScanRaises(_, _)
AnchorScanRaises(hrefs, base_url) ==
    IF Len(hrefs) = 0 THEN FALSE
    ELSE IF urljoin_raises(base_url, Head(hrefs)) THEN TRUE
    ELSE LET href == urljoin(base_url, Head(hrefs))
         IN  IF urlparse_raises(href) THEN TRUE
             ELSE IF ~IsGoogleHost(href) /\ (StartsWith(href, <<"h","t","t","p",":","/","/">>) \/ StartsWith(href, <<"h","t","t","p","s",":","/","/">>))
             THEN FALSE
             ELSE AnchorScanRaises(Tail(hrefs), base_url)

\* extract_external_from_gnews: the target of a meta refresh, else the first
\* external anchor, else the first external URL in the text; None when
\* there is none or anything raises
extract_external_from_gnews(html, base_url) ==
    IF ~HtmlTruthy(html) THEN Null
    ELSE LET tgt == IF Truthy(html.refresh) THEN refresh_target(html.refresh) ELSE Null
         IN  IF tgt # Null
             THEN (IF urljoin_raises(base_url, tgt) THEN Null ELSE urljoin(base_url, tgt))
             ELSE IF AnchorScanRaises(html.anchors, base_url) THEN Null
             ELSE IF FirstExternalAnchor(html.anchors, base_url) # Null
                  THEN FirstExternalAnchor(html.anchors, base_url)
             ELSE IF \E i \in 1..Len(html.raw_urls) :
                        /\ urlparse_raises(html.raw_urls[i])
                        /\ \A j \in 1..(i - 1) : IsGoogleHost(html.raw_urls[j])
                  THEN Null
             ELSE FirstExternalUrl(html.raw_urls)

\* ------------------------------------------------------- rewriting service
\* What the rewriting call meets:
\*   [key, http_ok, json, title, has_paragraphs, paragraphs_ok, paragraphs]
\* key: OPENROUTER_API_KEY is set; http_ok: the POST succeeded and the reply
\* holds choices[0].message.content; json: "bad" (json.loads raises), "other"
\* (valid JSON that is no object) or "dict"; title: the object's "title"
\* (Null when absent); has_paragraphs: the object has "paragraphs";
\* paragraphs_ok: that value is a list; paragraphs: its string items.

\* the minimum number of words of a rewritten text
MinWords == 200

\* how many paragraphs the rewriter returns at most
RewriteMaxParagraphs == 10

\* len(p.split())
WordCount(p) ==
    Cardinality({i \in 1..Len(p) : p[i] \notin WhiteSpace /\ (i = 1 \/ p[i - 1] \in WhiteSpace)})

RECURSIVE SumWords(_)
SumWords(ps) == IF Len(ps) = 0 THEN 0 ELSE WordCount(Head(ps)) + SumWords(Tail(ps))

\* the loop that completes the rewritten paragraphs with original ones
\* until MinWords words are held
RECURSIVE Complement(_, _, _)
Complement(new_pars, wc, originals) ==
    IF Len(originals) = 0 \/ wc >= MinWords THEN new_pars
    ELSE Complement(Append(new_pars, Head(originals)), wc + WordCount(Head(originals)), Tail(originals))

\* [p for p in data.get("paragraphs", []) if isinstance(p, str) and p.strip()]
new_pars(ai) ==
    IF ai.has_paragraphs THEN SelectSeq(ai.paragraphs, LAMBDA p : Len(Strip(p)) > 0) ELSE <<>>

\* rewrite_with_openrouter: (title, paragraphs), rewritten or as given
rewrite_with_openrouter(title, paragraphs, ai) ==
    IF ~ai.key \/ ~ai.http_ok \/ ai.json # "dict" THEN [title |-> title, paragraphs |-> paragraphs]
    ELSE IF ai.has_paragraphs /\ ~ai.paragraphs_ok THEN [title |-> title, paragraphs |-> paragraphs]
    ELSE [ title      |-> Or(ai.title, title),
           paragraphs |-> Take(Complement(new_pars(ai), SumWords(new_pars(ai)), paragraphs),
                               RewriteMaxParagraphs) ]

\* -------------------------------------------------------- process_article
\* The arguments of one call:
\*   [url, keyword, pub_dt, feed_title, feed_source_name, require_h1,
\*    require_img, want_debug, selectors]
\* selectors is [given, title_sel, image_sel, para_sel]: given is FALSE for
\* None; each selector is a text or Null.
NoSelectors == [given |-> FALSE, title_sel |-> Null, image_sel |-> Null, para_sel |-> Null]

\* the cap on a record's title
MaxTitleLen == 220

\* the link process_article follows from a Google News page, Null when the
\* first fetch did not end on Google News or no external link is found
gnews_external(info, html) ==
    IF Truthy(info.final_url) /\ is_google_news(info.final_url)
    THEN extract_external_from_gnews(html, info.final_url)
    ELSE Null

\* what the fetches leave: the unwrapped URL, the info of the first fetch,
\* the Google News target, the page to extract from, final_url_used and
\* base_for_abs = final_url_used or info.get("final_url") or url
fetched(url, info, ext, html, final_url_used) ==
    [ url |-> url, info |-> info, ext |-> ext, html |-> html,
      final_url_used |-> final_url_used,
      base_for_abs |-> Or(final_url_used, Or(info.final_url, url)) ]

\* after the fetch f2 of the Google News target: its page replaces the
\* first when it is not empty
pa_followed(url, f1, ext, f2) ==
    IF HtmlTruthy(f2.html)
    THEN fetched(url, f1.info, ext, f2.html, Or(f2.info.final_url, ext))
    ELSE fetched(url, f1.info, ext, f1.html, Null)

\* after the first fetch f1: the Google News target ext is fetched when set
pa_follow(url, f1, ext, r2) ==
    IF Truthy(ext) THEN pa_followed(url, f1, ext, fetch_html_ex(ext, r2))
    ELSE fetched(url, f1.info, ext, f1.html, Null)

pa_fetch_first(url, f1, r2) == pa_follow(url, f1, gnews_external(f1.info, f1.html), r2)

pa_fetch_unwrapped(url, r1, r2) == pa_fetch_first(url, fetch_html_ex(url, r1), r2)

\* the fetches before extraction: the page, and from a Google News page the
\* external page it links to.  r1 and r2 are what the network does to them.
pa_fetch(url0, r1, r2) == pa_fetch_unwrapped(unwrap_special_links(url0), r1, r2)

\* soup.select_one(sel): the first element, as a sequence of at most one
select_one(html, sel) == Take(select(html, sel), 1)

\* whether a selector is set and the selector engine rejects it
bad_selector(sel) == Truthy(sel) /\ select_raises(sel)

\* the cleaned texts of the elements a paragraph selector matched
selected_paragraphs(els) == CleanAll([k \in 1..Len(els) |-> els[k].text])

\* the custom selectors applied to the page: title, image and paragraphs
\* where a selector is set and matches; raises on a malformed selector
pa_selectors(html, selectors) ==
    IF ~(HtmlTruthy(html) /\ selectors.given)
    THEN [raises |-> FALSE, title |-> Null, image |-> Null, paragraphs |-> <<>>]
    ELSE IF bad_selector(selectors.title_sel) \/ bad_selector(selectors.image_sel)
            \/ bad_selector(selectors.para_sel)
    THEN [raises |-> TRUE, title |-> Null, image |-> Null, paragraphs |-> <<>>]
    ELSE [ raises |-> FALSE,
           title |-> IF Truthy(selectors.title_sel) /\ Len(select_one(html, selectors.title_sel)) > 0
                     THEN select_one(html, selectors.title_sel)[1].text
                     ELSE Null,
           image |-> IF Truthy(selectors.image_sel) /\ Len(select_one(html, selectors.image_sel)) > 0
                     THEN element_image(select_one(html, selectors.image_sel)[1])
                     ELSE Null,
           paragraphs |-> IF Truthy(selectors.para_sel)
                          THEN Take(selected_paragraphs(select(html, selectors.para_sel)), MaxParagraphs)
                          ELSE <<>> ]

\* paragraphs of the JSON-LD block sc, else those of paragraphs_from_html
schema_or_html_paragraphs(sc, html) ==
    IF Len(sc.paragraphs) > 0 THEN sc.paragraphs ELSE paragraphs_from_html(html)

\* the normal pipeline, run when the page was fetched and the selectors
\* gave no paragraphs: title and image where still empty, the paragraphs of
\* the JSON-LD block, else those of paragraphs_from_html
pa_pipeline(d, html, base_for_abs, feed_title) ==
    IF d.raises \/ ~HtmlTruthy(html) \/ Len(d.paragraphs) > 0 THEN d
    ELSE [ raises |-> FALSE,
           title |-> Or(d.title, Or(title_from_html(html), Or(feed_title, <<>>))),
           image |-> Or(d.image, image_from_html_best(html, base_for_abs)),
           paragraphs |-> schema_or_html_paragraphs(parse_schema_org(html), html) ]

\* the AMP link the fallback follows: set when the page was fetched, no
\* paragraphs were found and the page declares an AMP version
amp_href(d, html) ==
    IF ~d.raises /\ Len(d.paragraphs) = 0 /\ HtmlTruthy(html) /\ Truthy(html.amphtml)
    THEN html.amphtml
    ELSE Null

\* the AMP page's title and image taken whenever it has them
amp_fill_overwrite(d, amp, base) ==
    [ d |-> [ raises |-> FALSE,
              title |-> Or(title_from_html(amp), d.title),
              image |-> Or(image_from_html_best(amp, base), d.image),
              paragraphs |-> paragraphs_from_html(amp) ],
      base_for_abs |-> base, amp_used |-> TRUE ]

\* the AMP page fills what is still empty: title and image from
\* title_from_html and image_from_html_best, the paragraphs
amp_fill(d, amp, base) ==
    [ d |-> [ raises |-> FALSE,
              title |-> IF ~Truthy(d.title) THEN Or(title_from_html(amp), d.title) ELSE d.title,
              image |-> IF ~Truthy(d.image) THEN image_from_html_best(amp, base) ELSE d.image,
              paragraphs |-> paragraphs_from_html(amp) ],
      base_for_abs |-> base, amp_used |-> TRUE ]

\* the title and image selectors on the AMP page, where title and image
\* are still empty
amp_selected(d, selectors, amp) ==
    [d EXCEPT
       !.title = IF /\ selectors.given /\ Truthy(selectors.title_sel)
                    /\ Len(select_one(amp, selectors.title_sel)) > 0 /\ ~Truthy(d.title)
                 THEN select_one(amp, selectors.title_sel)[1].text
                 ELSE d.title,
       !.image = IF /\ selectors.given /\ Truthy(selectors.image_sel)
                    /\ Len(select_one(amp, selectors.image_sel)) > 0 /\ ~Truthy(d.image)
                 THEN element_image(select_one(amp, selectors.image_sel)[1])
                 ELSE d.image]

\* after the fetch of the AMP page, base_for_abs being base by then
amp_merge(d, selectors, amp, base) ==
    IF ~HtmlTruthy(amp) THEN [d |-> d, base_for_abs |-> base, amp_used |-> TRUE]
    ELSE IF selectors.given /\ (bad_selector(selectors.title_sel) \/ bad_selector(selectors.image_sel))
    THEN [d |-> [d EXCEPT !.raises = TRUE], base_for_abs |-> base, amp_used |-> TRUE]
    ELSE amp_fill(amp_selected(d, selectors, amp), amp, base)

\* final_url_used = final_url_used or (amp_info.get("final_url") or amp_url);
\* base_for_abs = final_url_used or base_for_abs
amp_fetched(d, f, selectors, amp_url, fa) ==
    amp_merge(d, selectors, fa.html,
              Or(Or(f.final_url_used, Or(fa.info.final_url, amp_url)), f.base_for_abs))

\* the AMP fallback: fetches the AMP page (r3 is what the network does),
\* moves base_for_abs to it unless a Google News link was followed, and
\* fills title, image and paragraphs where still empty
pa_amp(d, f, selectors, r3) ==
    IF amp_href(d, f.html) = Null
    THEN [d |-> d, base_for_abs |-> f.base_for_abs, amp_used |-> FALSE]
    ELSE IF urljoin_raises(f.base_for_abs, amp_href(d, f.html))
    THEN [d |-> [d EXCEPT !.raises = TRUE], base_for_abs |-> f.base_for_abs, amp_used |-> FALSE]
    ELSE amp_fetched(d, f, selectors, urljoin(f.base_for_abs, amp_href(d, f.html)),
                     fetch_html_ex(urljoin(f.base_for_abs, amp_href(d, f.html)), r3))

\* title and title.strip(): raises on a title that is no string
title_blank(title) == ~Truthy(title) \/ Len(Strip(title)) = 0

\* the acceptance gate with the image test before the title test
gate_image_first(title, image, paragraphs, require_h1, require_img) ==
    IF require_img /\ ~Truthy(image) THEN "no_image"
    ELSE IF require_h1 /\ title = NonStr THEN "raise"
    ELSE IF require_h1 /\ title_blank(title) THEN "no_h1"
    ELSE IF Len(paragraphs) = 0 THEN "no_paragraphs"
    ELSE "ok"

\* the acceptance gate that requires a title when require_h1 is not set
gate_inverted(title, image, paragraphs, require_h1, require_img) ==
    IF ~require_h1 /\ title = NonStr THEN "raise"
    ELSE IF ~require_h1 /\ title_blank(title) THEN "no_h1"
    ELSE IF require_img /\ ~Truthy(image) THEN "no_image"
    ELSE IF Len(paragraphs) = 0 THEN "no_paragraphs"
    ELSE "ok"

\* the acceptance gate: the first of no_h1, no_image, no_paragraphs that
\* applies, else ok; "raise" when the title test meets a title that is no
\* string
gate(title, image, paragraphs, require_h1, require_img) ==
    IF require_h1 /\ title = NonStr THEN "raise"
    ELSE IF require_h1 /\ title_blank(title) THEN "no_h1"
    ELSE IF require_img /\ ~Truthy(image) THEN "no_image"
    ELSE IF Len(paragraphs) = 0 THEN "no_paragraphs"
    ELSE "ok"

\* what the selectors and the normal pipeline extract from the fetched page
pa_extract(a, f) ==
    pa_pipeline(pa_selectors(f.html, a.selectors), f.html, f.base_for_abs, a.feed_title)

\* the draft at the gate, m being what the AMP fallback left: the image is
\* made absolute
draft_of(a, f, m) ==
    [ raises |-> m.d.raises,
      title |-> m.d.title,
      image |-> absolutize_url(m.d.image, m.base_for_abs),
      paragraphs |-> m.d.paragraphs,
      base_for_abs |-> m.base_for_abs,
      amp_used |-> m.amp_used,
      link |-> a.url,
      fetch |-> f.info ]

\* the draft at the gate: what the selectors, the pipeline and the AMP
\* fallback extracted
pa_draft_from(a, f, d1, r3) == draft_of(a, f, pa_amp(d1, f, a.selectors, r3))

pa_draft_at(a, f, r3) == pa_draft_from(a, f, pa_extract(a, f), r3)

pa_draft(a, r1, r2, r3) == pa_draft_at(a, pa_fetch(a.url, r1, r2), r3)

\* the record built from an accepted draft with the whole title
pa_item_uncapped(a, d, title, paragraphs) ==
    [ id |-> stable_id(d.base_for_abs),
      url |-> d.base_for_abs,
      title |-> IF Truthy(title) THEN title ELSE <<>>,
      image |-> d.image,
      paragraphs |-> paragraphs,
      source_name |-> Or(a.feed_source_name, hostname_from_url(d.base_for_abs)),
      published_at |-> iso(a.pub_dt),
      keyword |-> slugify(a.keyword) ]

\* the record process_article builds from an accepted draft
pa_item(a, d, title, paragraphs) ==
    [ id |-> stable_id(d.base_for_abs),
      url |-> d.base_for_abs,
      title |-> Take(IF Truthy(title) THEN title ELSE <<>>, MaxTitleLen),
      image |-> d.image,
      paragraphs |-> paragraphs,
      source_name |-> Or(a.feed_source_name, hostname_from_url(d.base_for_abs)),
      published_at |-> iso(a.pub_dt),
      keyword |-> slugify(a.keyword) ]

NoItem == [none |-> TRUE]

IsItem(item) == "id" \in DOMAIN item

\* the decision of the gate on a draft
decision(a, d) ==
    IF d.raises THEN "raise"
    ELSE gate(d.title, d.image, d.paragraphs, a.require_h1, a.require_img)

\* whether the rewriting step is called: the draft passed the gate and
\* REWRITE_WITH_AI is set
pa_rewrites(a, d, use_ai) == use_ai /\ decision(a, d) = "ok"

\* title and paragraphs after the optional rewriting step
rewritten(d, ai, use_ai) ==
    IF use_ai THEN rewrite_with_openrouter(d.title, d.paragraphs, ai)
    ELSE [title |-> d.title, paragraphs |-> d.paragraphs]

\* the trace returned with want_debug
trace(a, d, g) ==
    IF a.want_debug
    THEN [link |-> d.link, amp_used |-> d.amp_used, fetch |-> d.fetch, decision |-> g]
    ELSE [link |-> <<>>]

\* what the task yields given the decision g and the rewriting rw
pa_yield(a, d, g, rw) ==
    IF g = "raise" \/ (g = "ok" /\ rw.title = NonStr)
    THEN [raises |-> TRUE, item |-> NoItem, reason |-> "none", arity |-> 0, dbg |-> [link |-> <<>>]]
    ELSE [ raises |-> FALSE,
           item |-> IF g = "ok" THEN pa_item(a, d, rw.title, rw.paragraphs) ELSE NoItem,
           reason |-> IF g = "ok" THEN "none" ELSE g,
           arity |-> IF a.want_debug THEN 3 ELSE 2,
           dbg |-> trace(a, d, g) ]

\* process_article from the gate on: what the task yields.  raises: the
\* coroutine raised; otherwise (item, reason) and, with want_debug, the
\* trace as third component.  ai is what the rewriting call meets.
pa_decide(a, d, ai, use_ai) == pa_yield(a, d, decision(a, d), rewritten(d, ai, use_ai))

\* process_article.  r1, r2, r3 are what the network does to the fetch of
\* the page, of the Google News target and of the AMP page.
process_article(a, r1, r2, r3, ai, use_ai) == pa_decide(a, pa_draft(a, r1, r2, r3), ai, use_ai)

\* --------------------------------------------------------------- the web
\* The texts, pages and URLs the behaviours are drawn from.

P_OBRAS == <<"O"," ","p","r","e","f","e","i","t","o"," ","a","n","u","n","c","i","o","u"," ","o","b","r","a","s",".">>

\* P_OBRAS with other whitespace
P_OBRAS_SPACED == <<" "," ","O"," ","p","r","e","f","e","i","t","o"," "," "," ","a","n","u","n","c","i","o","u","\n"," ","o","b","r","a","s","."," "," ">>

P_TURISTAS == <<"A"," ","c","i","d","a","d","e"," ","r","e","c","e","b","e","u"," ","t","u","r","i","s","t","a","s",".">>

P_BALSA == <<"A"," ","b","a","l","s","a"," ","v","o","l","t","o","u"," ","a"," ","o","p","e","r","a","r"," ","h","o","j","e",".">>

\* holds the phrase "leia mais"
P_LEIA == <<"L","e","i","a"," ","m","a","i","s"," ","s","o","b","r","e"," ","o"," ","a","s","s","u","n","t","o"," ","a","q","u","i">>

\* begins with the verb "veja"
P_VEJA == <<"V","e","j","a"," ","c","o","m","o"," ","f","o","i"," ","a"," ","f","e","s","t","a"," ","n","a"," ","p","r","a","i","a">>

\* shorter than MinParagraphLen
\* a paragraph that is nothing but a URL
P_URL == <<"h","t","t","p","s",":","/","/","o","u","t","r","o",".","c","o","m",".","b","r","/","m","a","t","e","r","i","a","/","2">>

P_CURTO == <<"F","o","t","o",":"," ","D","i","v","u","l","g","a">>

T_OBRAS == <<"O","b","r","a","s"," ","n","a"," ","c","i","d","a","d","e">>

T_BALSA == <<"B","a","l","s","a"," ","v","o","l","t","a"," ","a"," ","o","p","e","r","a","r">>

T_NOVO == <<"N","o","v","o"," ","t","i","t","u","l","o">>

\* a title one character longer than a record's title may be
T_LONG == [k \in 1..(MaxTitleLen + 1) |-> "a"]

U_A == <<"h","t","t","p","s",":","/","/","s","i","t","e",".","c","o","m","/","n","o","t","i","c","i","a","/","1">>

\* redirects to U_A
U_A_SHORT == <<"h","t","t","p",":","/","/","s","i","t","e",".","c","o","m","/","n","1">>

\* a Facebook redirect link to U_A
U_FB == <<"h","t","t","p","s",":","/","/","l",".","f","a","c","e","b","o","o","k",".","c","o","m","/","l",".","p","h","p","?","u","=","h","t","t","p","s","%3A","%2F","%2F","s","i","t","e",".","c","o","m","%2F","n","o","t","i","c","i","a","%2F","1","&","h","=","x">>

\* a Facebook redirect link to U_FB without its h field
U_FB2 == <<"h","t","t","p","s",":","/","/","l",".","f","a","c","e","b","o","o","k",".","c","o","m","/","l",".","p","h","p","?","u","=","h","t","t","p","s","%3A","%2F","%2F","l",".","f","a","c","e","b","o","o","k",".","c","o","m","%2F","l",".","p","h","p","%3F","u","%3D","h","t","t","p","s","%253A","%252F","%252F","s","i","t","e",".","c","o","m","%252F","n","o","t","i","c","i","a","%252F","1">>

\* what one unwrapping of U_FB2 gives
U_FB2_INNER == <<"h","t","t","p","s",":","/","/","l",".","f","a","c","e","b","o","o","k",".","c","o","m","/","l",".","p","h","p","?","u","=","h","t","t","p","s",":","/","/","s","i","t","e",".","c","o","m","/","n","o","t","i","c","i","a","/","1">>

\* a Facebook share link to U_B
U_SHARE == <<"h","t","t","p","s",":","/","/","w","w","w",".","f","a","c","e","b","o","o","k",".","c","o","m","/","s","h","a","r","e","r",".","p","h","p","?","h","r","e","f","=","h","t","t","p","s","%3A","%2F","%2F","o","u","t","r","o",".","c","o","m",".","b","r","%2F","m","a","t","e","r","i","a","%2F","2">>

\* a URL urlparse rejects
U_MALFORMED == <<"h","t","t","p",":","/","/","[","s","i","t","e",".","c","o","m","/","l",".","p","h","p","?","u","=","x">>

U_B == <<"h","t","t","p","s",":","/","/","o","u","t","r","o",".","c","o","m",".","b","r","/","m","a","t","e","r","i","a","/","2">>

U_B_AMP == <<"h","t","t","p","s",":","/","/","o","u","t","r","o",".","c","o","m",".","b","r","/","a","m","p","/","m","a","t","e","r","i","a","/","2">>

\* a Google News article link
U_G == <<"h","t","t","p","s",":","/","/","n","e","w","s",".","g","o","o","g","l","e",".","c","o","m","/","r","s","s","/","a","r","t","i","c","l","e","s","/","C","B","M","i">>

U_PDF == <<"h","t","t","p","s",":","/","/","s","i","t","e",".","c","o","m","/","e","d","i","t","a","l",".","p","d","f">>

\* a page of each combination of title, image and paragraphs
U_D == <<"h","t","t","p","s",":","/","/","s","i","t","e",".","c","o","m","/","n","o","t","i","c","i","a","/","9">>

\* the listing of the Ilhabela portal, and an article of it
U_IL_LIST == <<"h","t","t","p","s",":","/","/","w","w","w",".","i","l","h","a","b","e","l","a",".","s","p",".","g","o","v",".","b","r","/","p","o","r","t","a","l","/","n","o","t","i","c","i","a","s","/","3">>

U_IL_ART == <<"h","t","t","p","s",":","/","/","w","w","w",".","i","l","h","a","b","e","l","a",".","s","p",".","g","o","v",".","b","r","/","p","o","r","t","a","l","/","n","o","t","i","c","i","a","s","/","0","/","3","/","1","2","3","/","o","b","r","a","s">>

\* a listing page of site.com
U_LIST == <<"h","t","t","p","s",":","/","/","s","i","t","e",".","c","o","m","/","n","o","t","i","c","i","a","s">>

SEL_TITLE == <<"h","1",".","t","i","t","u","l","o">>

SEL_PARA == <<"d","i","v",".","t","e","x","t","o"," ","p">>

SEL_ITEM == <<"l","i",".","i","t","e","m"," ","a">>

\* a selector the engine rejects
SEL_BAD == <<"d","i","v","[">>

CT_HTML == <<"t","e","x","t","/","h","t","m","l",";"," ","c","h","a","r","s","e","t","=","u","t","f","-","8">>

CT_PDF == <<"a","p","p","l","i","c","a","t","i","o","n","/","p","d","f">>

BlankPage ==
    [ body |-> "html", ld |-> <<>>, og_title |-> Null, title_tag |-> Null, h1 |-> Null,
      meta_images |-> <<>>, fig_images |-> <<>>, root_images |-> <<>>, doc_images |-> <<>>,
      root_ps |-> <<>>, root_lists |-> <<>>, readability |-> [ok |-> FALSE, ps |-> <<>>],
      trafilatura |-> Null, boilerpipe |-> [ok |-> FALSE, text |-> <<>>], text |-> <<>>,
      amphtml |-> Null, refresh |-> Null, anchors |-> <<>>, raw_urls |-> <<>>, css |-> <<>> ]

EmptyPage == [body |-> "empty"]

\* an element a selector matched: its text and its content, src, data-src
\* and href attributes (its own href, or that of the first <a> inside it)
El(text) == [text |-> text, content |-> Null, src |-> Null, data_src |-> Null, href |-> Null]

\* title, meta image with a relative URL, three <p> one of which is boilerplate
PageObras ==
    [BlankPage EXCEPT !.og_title = T_OBRAS, !.h1 = T_OBRAS,
                      !.meta_images = <<<<"/","i","m","g","/","o","b","r","a","s",".","p","n","g">>>>,
                      !.root_ps = <<P_OBRAS, P_LEIA, P_TURISTAS>>,
                      !.text = T_OBRAS \o <<"\n">> \o P_OBRAS,
                      !.css = << <<SEL_TITLE, <<El(T_NOVO)>> >>,
                                 <<SEL_PARA, <<El(P_BALSA), El(P_CURTO)>> >> >>]

\* the article under a title longer than MaxTitleLen
PageLongTitle == [PageObras EXCEPT !.og_title = T_LONG]

\* one <p>, and a text that trafilatura extracts without it
PageTraf ==
    [BlankPage EXCEPT !.og_title = T_OBRAS, !.root_ps = <<P_OBRAS>>,
                      !.trafilatura = P_BALSA \o <<"\n">> \o P_TURISTAS]

\* the same article later: other title, no image, the paragraph repeated
PageObrasEdited ==
    [BlankPage EXCEPT !.title_tag = T_NOVO,
                      !.root_ps = <<P_OBRAS, P_OBRAS_SPACED>>,
                      !.text = P_OBRAS]

LdBalsa ==
    [ json |-> "ok", shape |-> "dict", type |-> <<"N","e","w","s","A","r","t","i","c","l","e">>, headline |-> T_BALSA,
      name |-> Null, image |-> <<"h","t","t","p",":","/","/","c","d","n",".","o","u","t","r","o",".","c","o","m",".","b","r","/","i",".","p","n","g">>,
      body |-> P_BALSA \o <<"\n", "\n">> \o P_TURISTAS ]

\* a JSON-LD article
PageLd == [BlankPage EXCEPT !.ld = <<LdBalsa>>, !.title_tag = T_NOVO]

\* a JSON-LD article in which the paragraph selector matches two elements
\* of the same text and the title selector matches none
PageLdSel ==
    [PageLd EXCEPT !.css = << <<SEL_PARA, <<El(P_OBRAS), El(P_OBRAS)>> >> >>]

\* a JSON-LD article whose headline is no string
PageLdNonStr == [BlankPage EXCEPT !.ld = <<[LdBalsa EXCEPT !.headline = NonStr]>>]

\* only a title, an image and an AMP link
PageAmpLink ==
    [BlankPage EXCEPT !.title_tag = T_BALSA, !.meta_images = <<<<"/","i","m","g","/","b","a","l","s","a",".","p","n","g">>>>,
                      !.amphtml = <<"/","a","m","p","/","m","a","t","e","r","i","a","/","2">>]

PageAmp ==
    [BlankPage EXCEPT !.title_tag = T_NOVO, !.doc_images = <<<<"/","i","/","b","a","l","s","a",".","j","p","g">>>>,
                      !.root_ps = <<P_BALSA, P_TURISTAS, P_URL>>]

\* the Google News page of an article: a <p>, links to Google, then to U_B
PageGnews ==
    [BlankPage EXCEPT !.title_tag = <<"G","o","o","g","l","e"," ","N","e","w","s">>, !.root_ps = <<P_TURISTAS>>,
                      !.anchors = <<<<"h","t","t","p","s",":","/","/","w","w","w",".","g","o","o","g","l","e",".","c","o","m","/","i","n","t","l","/","p","t">>, U_B>>]

\* a listing: two links to U_A, a page that is no article, a link to U_B
PageListing ==
    [BlankPage EXCEPT !.title_tag = <<"N","o","t","i","c","i","a","s">>,
                      !.anchors = <<<<"/","n","o","t","i","c","i","a","/","1">>, <<"/","n","o","t","i","c","i","a","/","1","#","c","o","m","e","n","t","a","r","i","o","s">>, <<"/","s","o","b","r","e">>, U_B>>,
                      !.css = << <<SEL_ITEM, <<[El(<<>>) EXCEPT !.href = <<"/","n","o","t","i","c","i","a","/","1">>]>> >> >>]

\* the pages of U_D: every combination of title, image and paragraphs
GateTitles == {Null, <<" "," ">>, T_OBRAS}

GateImages == {<<>>, <<<<"/","i","m","g","/","a",".","p","n","g">>>>}

GateParagraphs == {<<>>, <<P_OBRAS>>}

GatePages ==
    { [BlankPage EXCEPT !.og_title = t, !.meta_images = i, !.root_ps = p] :
        t \in GateTitles, i \in GateImages, p \in GateParagraphs }

Ok200(url, page) == [raises |-> FALSE, status |-> 200, ctype |-> CT_HTML, url |-> url, body |-> page]

Status(code, url) == [raises |-> FALSE, status |-> code, ctype |-> CT_HTML, url |-> url, body |-> EmptyPage]

\* the request raises: timeout, DNS failure, connection reset
NetError ==
    [raises |-> TRUE, status |-> 0, ctype |-> <<>>, url |-> <<>>, body |-> EmptyPage,
     error |-> <<"t","i","m","e","d"," ","o","u","t">>]

\* what the network may do to a GET of a URL
Web(url) ==
    CASE url = U_A -> {Ok200(U_A, PageObras), Ok200(U_A, PageObrasEdited), Status(404, U_A)}
      [] url = U_A_SHORT -> {Ok200(U_A, PageObras)}
      [] url = U_B -> {Ok200(U_B, PageLd), Ok200(U_B, PageLdNonStr), Ok200(U_B, PageAmpLink), NetError}
      [] url = U_B_AMP -> {Ok200(U_B_AMP, PageAmp), Status(404, U_B_AMP)}
      [] url = U_G -> {Ok200(U_G, PageGnews)}
      [] url = U_PDF -> {[Ok200(U_PDF, EmptyPage) EXCEPT !.ctype = CT_PDF]}
      [] url = U_D -> {Ok200(U_D, p) : p \in GatePages} \cup {Ok200(U_D, EmptyPage)}
      [] url = U_IL_ART -> {Ok200(U_IL_ART, PageLongTitle), Ok200(U_IL_ART, PageTraf),
                            Ok200(U_IL_ART, PageLdSel)}
      [] url = U_LIST -> {Ok200(U_LIST, PageListing), Status(500, U_LIST)}
      [] OTHER -> {NetError}

\* what the rewriting call may meet when the API key is set: a timeout or
\* an HTTP error, a reply that is no JSON, a rewriting, an object whose
\* title is a number, an object whose paragraphs are no list, an object
\* whose title is blank
AiReplies ==
    { [key |-> TRUE, http_ok |-> FALSE, json |-> "bad", title |-> Null,
       has_paragraphs |-> FALSE, paragraphs_ok |-> TRUE, paragraphs |-> <<>>],
      [key |-> TRUE, http_ok |-> TRUE, json |-> "bad", title |-> Null,
       has_paragraphs |-> FALSE, paragraphs_ok |-> TRUE, paragraphs |-> <<>>],
      [key |-> TRUE, http_ok |-> TRUE, json |-> "dict", title |-> T_NOVO,
       has_paragraphs |-> TRUE, paragraphs_ok |-> TRUE, paragraphs |-> <<P_LEIA, P_CURTO>>],
      [key |-> TRUE, http_ok |-> TRUE, json |-> "dict", title |-> NonStr,
       has_paragraphs |-> TRUE, paragraphs_ok |-> TRUE, paragraphs |-> <<P_BALSA>>],
      [key |-> TRUE, http_ok |-> TRUE, json |-> "dict", title |-> Null,
       has_paragraphs |-> TRUE, paragraphs_ok |-> FALSE, paragraphs |-> <<>>],
      [key |-> TRUE, http_ok |-> TRUE, json |-> "dict", title |-> <<" "," ">>,
       has_paragraphs |-> TRUE, paragraphs_ok |-> TRUE, paragraphs |-> <<P_TURISTAS>>] }

\* what it meets without the key
AiNoKey ==
    [key |-> FALSE, http_ok |-> FALSE, json |-> "bad", title |-> Null,
     has_paragraphs |-> FALSE, paragraphs_ok |-> TRUE, paragraphs |-> <<>>]

\* a response that is never read
Unused == NetError

\* ------------------------------------------------------------- the store
\* json.dumps of the paragraph list, and json.loads of the stored text
json_dumps(ps) == [json |-> ps]

json_loads(x) == x.json

\* db_upsert that replaces the row, its created_at included
db_upsert_replace(rows, item, t) ==
    {r \in rows : r.url # item.url} \cup
    { [ id |-> item.id, url |-> item.url, title |-> item.title, image |-> item.image,
        paragraphs |-> json_dumps(item.paragraphs), source_name |-> item.source_name,
        published_at |-> item.published_at, keyword |-> item.keyword, created_at |-> iso(t) ] }

\* db_upsert that leaves the keyword of a row of the same url as it was
db_upsert_keep_keyword(rows, item, t) ==
    IF \E r \in rows : r.url = item.url
    THEN { IF r.url = item.url
           THEN [r EXCEPT !.title = item.title, !.image = item.image,
                          !.paragraphs = json_dumps(item.paragraphs),
                          !.source_name = item.source_name,
                          !.published_at = item.published_at]
           ELSE r : r \in rows }
    ELSE rows \cup
         { [ id |-> item.id, url |-> item.url, title |-> item.title, image |-> item.image,
             paragraphs |-> json_dumps(item.paragraphs), source_name |-> item.source_name,
             published_at |-> item.published_at, keyword |-> item.keyword, created_at |-> iso(t) ] }

\* db_upsert at instant t: INSERT ... ON CONFLICT(url) DO UPDATE.  A row of
\* the same url keeps its id and created_at and takes the other columns of
\* the item; otherwise the item becomes a new row created at t.  (Rows of
\* equal id have equal url, stable_id being injective, so the primary key
\* never conflicts alone.)
db_upsert(rows, item, t) ==
    IF \E r \in rows : r.url = item.url
    THEN { IF r.url = item.url
           THEN [r EXCEPT !.title = item.title, !.image = item.image,
                          !.paragraphs = json_dumps(item.paragraphs),
                          !.source_name = item.source_name,
                          !.published_at = item.published_at, !.keyword = item.keyword]
           ELSE r : r \in rows }
    ELSE rows \cup
         { [ id |-> item.id, url |-> item.url, title |-> item.title, image |-> item.image,
             paragraphs |-> json_dumps(item.paragraphs), source_name |-> item.source_name,
             published_at |-> item.published_at, keyword |-> item.keyword, created_at |-> iso(t) ] }

\* ------------------------------------------------------ crawl orchestration
\* how many feed entries and candidate links one crawl takes
MaxFeedEntries == 80

MaxCandidates == 150

ZeroMetrics == [ok |-> 0, fetch_fail |-> 0, no_h1 |-> 0, no_image |-> 0, no_paragraphs |-> 0]

\* an entry of the search feed: its link and how many hours ago it was
\* published
Entry(link, age) == [link |-> link, age |-> age]

entry_links(es) == [k \in 1..Len(es) |-> es[k].link]

\* the links of the feed entries: e.get("link") of the first MaxFeedEntries
\* entries, where set
feed_links(entries) ==
    entry_links(SelectSeq(Take(entries, MaxFeedEntries), LAMBDA e : Truthy(e.link)))

\* the candidate filter of crawl_keyword: no empty link, no repeated link,
\* and of ilhabela.sp.gov.br only article pages
RECURSIVE normalize_links(_, _)
normalize_links(links, seen) ==
    IF Len(links) = 0 THEN <<>>
    ELSE LET l == Head(links)
         IN  IF ~Truthy(l) \/ l \in seen THEN normalize_links(Tail(links), seen)
             ELSE IF Contains(Lower(l), <<"i","l","h","a","b","e","l","a",".","s","p",".","g","o","v",".","b","r">>) /\ ~is_ilhabela_article(l)
                  THEN normalize_links(Tail(links), seen)
             ELSE <<l>> \o normalize_links(Tail(links), seen \cup {l})

\* the candidates of crawl_keyword when every one of them is dispatched
keyword_candidates_uncapped(links) == normalize_links(links, {})

\* the links crawl_keyword dispatches
keyword_candidates(links) == Take(normalize_links(links, {}), MaxCandidates)

\* the loop over the gathered results when a task that raised ends it
RECURSIVE aggregate_abort(_, _, _)
aggregate_abort(results, want_debug, acc) ==
    IF Len(results) = 0 \/ Head(results).raises THEN acc
    ELSE aggregate_abort(Tail(results), want_debug,
            IF IsItem(Head(results).item)
            THEN [acc EXCEPT !.out = Append(@, Head(results).item),
                             !.rows = db_upsert(@, Head(results).item, acc.now),
                             !.log = Append(@, [item |-> Head(results).item, at |-> acc.now]),
                             !.now = @ + 1,
                             !.metrics.ok = @ + 1]
            ELSE [acc EXCEPT !.metrics[Head(results).reason] = @ + 1])

\* the loop over the gathered results when a task that raised is skipped
\* without being counted
RECURSIVE aggregate_uncounted(_, _, _)
aggregate_uncounted(results, want_debug, acc) ==
    IF Len(results) = 0 THEN acc
    ELSE aggregate_uncounted(Tail(results), want_debug,
            IF Head(results).raises THEN acc
            ELSE IF IsItem(Head(results).item)
            THEN [acc EXCEPT !.out = Append(@, Head(results).item),
                             !.rows = db_upsert(@, Head(results).item, acc.now),
                             !.log = Append(@, [item |-> Head(results).item, at |-> acc.now]),
                             !.now = @ + 1,
                             !.metrics.ok = @ + 1]
            ELSE [acc EXCEPT !.metrics[Head(results).reason] = @ + 1])

\* the loop over the gathered results: an accepted item is appended to out,
\* upserted and counted under ok; a rejection is counted under its reason;
\* a task that raised (or, with want_debug, any result that is no triple)
\* is counted under fetch_fail.  acc is [out, metrics, details, rows, now, log].
RECURSIVE aggregate(_, _, _)
aggregate(results, want_debug, acc) ==
    IF Len(results) = 0 THEN acc
    ELSE LET res == Head(results)
             tuple == ~res.raises /\ (want_debug => res.arity = 3)
             key == IF res.reason = "none" THEN "fetch_fail" ELSE res.reason
             acc1 ==
                IF ~tuple
                THEN [acc EXCEPT !.metrics.fetch_fail = @ + 1]
                ELSE IF IsItem(res.item)
                THEN [acc EXCEPT !.out = Append(@, res.item),
                                 !.rows = db_upsert(@, res.item, acc.now),
                                 !.log = Append(@, [item |-> res.item, at |-> acc.now]),
                                 !.now = @ + 1,
                                 !.metrics.ok = @ + 1]
                ELSE [acc EXCEPT !.metrics[key] = @ + 1]
         IN  aggregate(Tail(results), want_debug,
                       IF tuple /\ want_debug THEN [acc1 EXCEPT !.details = Append(@, res.dbg)] ELSE acc1)

\* DEFAULT_ARTICLE_REGEX.search(href): /(noticia|noticias|materia|/20\d{2}/)\b
\* ignoring case
ArticleWords == { <<"n","o","t","i","c","i","a">>, <<"n","o","t","i","c","i","a","s">>, <<"m","a","t","e","r","i","a">> }

default_article_match(href) ==
    LET low == Lower(href)
        n == Len(low)
    IN  \E i \in 1..n :
            /\ low[i] = "/"
            /\ \/ \E w \in ArticleWords :
                    /\ i + Len(w) <= n
                    /\ SubSeq(low, i + 1, i + Len(w)) = w
                    /\ (i + Len(w) = n \/ ~IsWordChar(low[i + Len(w) + 1]))
               \/ /\ i + 7 <= n
                  /\ SubSeq(low, i + 1, i + 3) = <<"/","2","0">>
                  /\ low[i + 4] \in Digits /\ low[i + 5] \in Digits
                  /\ low[i + 6] = "/"
                  /\ IsWordChar(low[i + 7])

\* re.search(url_regex, href) raises re.error: here, a pattern with an
\* unbalanced parenthesis
regex_invalid(rx) == ("(" \in Range(rx)) # (")" \in Range(rx))

\* looks_like_article_url.  A url_regex of the model is a literal text, so
\* re.search with re.I is a case-blind substring test.
looks_like_article_url(href, url_regex) ==
    IF Contains(Lower(href), <<"i","l","h","a","b","e","l","a",".","s","p",".","g","o","v",".","b","r">>) THEN is_ilhabela_article(href)
    ELSE IF Truthy(url_regex) /\ ~regex_invalid(url_regex)
         THEN Contains(Lower(href), Lower(url_regex))
    ELSE default_article_match(href)

\* l.split("#")[0]
before_fragment(l) ==
    LET i == IndexOfAny(l, {"#"}) IN IF i = 0 THEN l ELSE SubSeq(l, 1, i - 1)

IsHttp(href) == StartsWith(href, <<"h","t","t","p",":","/","/">>) \/ StartsWith(href, <<"h","t","t","p","s",":","/","/">>)

\* the absolute http(s) hrefs that look like articles
article_hrefs(hrefs, base_url, url_regex) ==
    SelectSeq([k \in 1..Len(hrefs) |-> urljoin(base_url, hrefs[k])],
              LAMBDA h : IsHttp(h) /\ looks_like_article_url(h, url_regex))

\* whether extract_links_from_listing raises: a malformed selector, or an
\* href urljoin rejects
listing_raises(html, base_url, selector, url_regex) ==
    \/ Truthy(selector) /\ select_raises(selector)
    \/ \E k \in 1..Len(html.anchors) : urljoin_raises(base_url, html.anchors[k])

\* the href of each selected element that has one
hrefs_of(els) == SelectSeq([k \in 1..Len(els) |-> els[k].href], LAMBDA h : Truthy(h))

\* the links of the whole page when the selector gave none
listing_links(picked, html, base_url, url_regex) ==
    IF Len(picked) = 0 THEN article_hrefs(html.anchors, base_url, url_regex) ELSE picked

\* fragments dropped, repeats removed, at most MaxCandidates
listing_out(links) ==
    Take(Dedup([k \in 1..Len(links) |-> before_fragment(links[k])], {}), MaxCandidates)

\* extract_links_from_listing: the article links under the selector, or of
\* the whole page when there is no selector or it gave none
extract_links_from_listing(html, base_url, selector, url_regex) ==
    listing_out(listing_links(
        article_hrefs(hrefs_of(IF Truthy(selector) THEN select(html, selector) ELSE <<>>),
                      base_url, url_regex),
        html, base_url, url_regex))

\* ------------------------------------------------------------ the program
\* Bounds of the model: how many requests a behaviour holds, and how many
\* entries a source returns.
MaxRequests == 1

MaxFeedLen == 1

\* hours_max of a /crawl request: the default
HoursMax == 12

\* the entries the Google News feed may return, one of them older than
\* hours_max, and the links GDELT may return
GNewsEntries == {Entry(U_A, HoursMax - 1), Entry(U_A, HoursMax + 1), Entry(U_G, HoursMax - 1)}

GdeltLinks == {U_A, U_A_SHORT, U_IL_LIST}

\* the URLs submitted to /add
AddLinks == {U_A, U_FB2, U_SHARE, U_MALFORMED, U_B, U_D, U_PDF, U_IL_ART}

Keywords == {<<"L","i","t","o","r","a","l"," ","N","o","r","t","e">>}

\* the keyword lists of a /crawl request
KeywordLists == {<<>>, <<<<"L","i","t","o","r","a","l"," ","N","o","r","t","e">>>>}

\* the rules /rules/set may store, article selectors and listing selector
RuleChoices ==
    { [title_sel |-> SEL_TITLE, image_sel |-> Null, para_sel |-> SEL_PARA,
       list_selector |-> SEL_ITEM, url_regex |-> Null],
      [title_sel |-> Null, image_sel |-> Null, para_sel |-> SEL_BAD,
       list_selector |-> Null, url_regex |-> <<"/","m","a","t","e","r","i","a","/">>] }

NoRule ==
    [title_sel |-> Null, image_sel |-> Null, para_sel |-> Null,
     list_selector |-> Null, url_regex |-> Null]

\* the sequences over S of length at most n
SeqsUpTo(S, n) == UNION {[1..k -> S] : k \in 0..n}

VARIABLES
    store,      \* the rows of table items
    rules,      \* table rules: slug -> rule (NoRule when there is no row)
    now,        \* the clock: what the next now_utc() returns
    env,        \* the environment: REWRITE_WITH_AI, OPENROUTER_API_KEY set
    req,        \* the request being handled
    crawl,      \* the crawl_keyword / crawl_listing_once call in progress
    tasks,      \* the process_article calls of the crawl or of /add
    resp,       \* what the last request ended with
    log,        \* every db_upsert so far: the item and the instant
    started,    \* how many requests have started
    bg          \* the background runner

vars == <<store, rules, now, env, req, crawl, tasks, resp, log, started, bg>>

Idle ==
    [ kind |-> "idle", keywords |-> <<>>, kw |-> 0, require_h1 |-> FALSE,
      require_img |-> FALSE, debug |-> FALSE, url |-> <<>>, keyword |-> <<>>,
      selector |-> Null, url_regex |-> Null, selectors |-> NoSelectors, collected |-> <<>>,
      hours_max |-> 0 ]

\* feed: the entries of the search feed; links: the links of both sources
NoCrawl == [phase |-> "none", keyword |-> <<>>, feed |-> <<>>, links |-> <<>>, final_url |-> Null]

NoResp == [kind |-> "none", handler |-> "none"]

NoResult == [raises |-> FALSE, item |-> NoItem, reason |-> "pending", arity |-> 0, dbg |-> [link |-> <<>>]]

\* the runner where DISABLE_BACKGROUND is set: _bg_start has returned
\* without creating it
BgOff ==
    [ disabled |-> TRUE, interval |-> 0, phase |-> "off", step |-> 0, pending |-> <<>>,
      cycles |-> 0, failed |-> 0, last_run |-> Null, summary |-> "none", slept |-> 0 ]

Init ==
    /\ store = {}
    /\ rules = [s \in {slugify(k) : k \in Keywords} |-> NoRule]
    /\ now = 1
    /\ env \in {[use_ai |-> FALSE, key |-> FALSE], [use_ai |-> TRUE, key |-> FALSE],
                [use_ai |-> TRUE, key |-> TRUE]}
    /\ req = Idle
    /\ crawl = NoCrawl
    /\ tasks = <<>>
    /\ resp = NoResp
    /\ log = <<>>
    /\ started = 0
    /\ bg = BgOff

\* a request may start: none is being handled and the bound allows it
CanStart == req.kind = "idle" /\ started < MaxRequests

\* ------------------------------------------------------------ the tasks
\* what a task awaits next, f being what its fetches left, d1 what the
\* page gave and d the draft: the fetch of the Google News target, the
\* fetch of the AMP page, the rewriting call, or nothing more
next_pc(t, f, d1, d) ==
    IF t.pc = "fetch" /\ Truthy(f.ext) THEN "follow"
    ELSE IF /\ t.pc \in {"fetch", "follow"}
            /\ amp_href(d1, f.html) # Null
            /\ ~urljoin_raises(f.base_for_abs, amp_href(d1, f.html))
    THEN "amp"
    ELSE IF t.pc \in {"fetch", "follow", "amp"} /\ pa_rewrites(t.a, d, env.use_ai)
    THEN "rewrite"
    ELSE "done"

\* no draft: the task has not reached the gate
NoDraft == [raises |-> FALSE]

\* the task record after a step that met the responses r: what it awaits
\* next, the draft it holds once it has reached the gate and, done, what it
\* yields
task_after(t, r, f, d1, d) ==
    [ a |-> t.a, pc |-> next_pc(t, f, d1, d), r1 |-> r.r1, r2 |-> r.r2, r3 |-> r.r3, ai |-> AiNoKey,
      d |-> IF next_pc(t, f, d1, d) \in {"rewrite", "done"} THEN d ELSE NoDraft,
      res |-> IF next_pc(t, f, d1, d) = "done" THEN pa_decide(t.a, d, AiNoKey, env.use_ai)
              ELSE NoResult ]

stepped_from(t, r, f, d1) == task_after(t, r, f, d1, pa_draft_from(t.a, f, d1, r.r3))

stepped_at(t, r, f) == stepped_from(t, r, f, pa_extract(t.a, f))

\* a task after the fetches that met r1, r2, r3 (Unused where none was made)
stepped(t, r1, r2, r3) ==
    stepped_at(t, [r1 |-> r1, r2 |-> r2, r3 |-> r3], pa_fetch(t.a.url, r1, r2))

\* the URL of the AMP page a task fetches
amp_target(a, f) == urljoin(f.base_for_abs, amp_href(pa_extract(a, f), f.html))

amp_url_of(t) == amp_target(t.a, pa_fetch(t.a.url, t.r1, t.r2))

new_task(a) ==
    [a |-> a, pc |-> "fetch", r1 |-> Unused, r2 |-> Unused, r3 |-> Unused, ai |-> AiNoKey,
     d |-> NoDraft, res |-> NoResult]

FrameUnchanged == UNCHANGED <<store, rules, now, env, bg, req, crawl, resp, log, started>>

\* await fetch_html_ex(client, url): the fetch of the page returns
TaskFetch(i) ==
    /\ tasks[i].pc = "fetch"
    /\ \E r \in Web(unwrap_special_links(tasks[i].a.url)) :
          tasks' = [tasks EXCEPT ![i] = stepped(@, r, Unused, Unused)]
    /\ FrameUnchanged

\* await fetch_html_ex(client, ext): the fetch of the Google News target returns
TaskFollow(i) ==
    /\ tasks[i].pc = "follow"
    /\ \E r \in Web(pa_fetch(tasks[i].a.url, tasks[i].r1, Unused).ext) :
          tasks' = [tasks EXCEPT ![i] = stepped(@, @.r1, r, Unused)]
    /\ FrameUnchanged

\* await fetch_html_ex(client, amp_url): the fetch of the AMP page returns
TaskAmp(i) ==
    /\ tasks[i].pc = "amp"
    /\ \E r \in Web(amp_url_of(tasks[i])) :
          tasks' = [tasks EXCEPT ![i] = stepped(@, @.r1, @.r2, r)]
    /\ FrameUnchanged

\* await rewrite_with_openrouter(...): the rewriting call returns
TaskRewrite(i) ==
    /\ tasks[i].pc = "rewrite"
    /\ \E ai \in (IF env.key THEN AiReplies ELSE {AiNoKey}) :
          tasks' = [tasks EXCEPT ![i].pc = "done", ![i].ai = ai,
                                 ![i].res = pa_decide(tasks[i].a, tasks[i].d, ai, env.use_ai)]
    /\ FrameUnchanged

AllDone == \A i \in 1..Len(tasks) : tasks[i].pc = "done"

results == [i \in 1..Len(tasks) |-> tasks[i].res]

\* --------------------------------------------------------- the handlers
\* by_id = {it["id"]: it for it in items}; list(by_id.values()): one item
\* per id, at the place of its first occurrence, with its last value
by_id(items) ==
    LET ids == Dedup([k \in 1..Len(items) |-> items[k].id], {})
        last(id) == items[CHOOSE k \in 1..Len(items) :
                            items[k].id = id /\ \A m \in (k + 1)..Len(items) : items[m].id # id]
    IN  [k \in 1..Len(ids) |-> last(ids[k])]

\* the entry of an item in the response of /crawl
brief(it) == [id |-> it.id, title |-> it.title, source |-> it.source_name]

\* the arguments of the process_article call of a crawl
article_args(url, keyword, ts, selectors) ==
    [ url |-> url, keyword |-> keyword, pub_dt |-> ts, feed_title |-> Null,
      feed_source_name |-> Null, require_h1 |-> req.require_h1,
      require_img |-> req.require_img, want_debug |-> req.debug, selectors |-> selectors ]

\* sels = {"title_sel": rule.get("title_sel"), ...}
rule_selectors(rule) ==
    [given |-> TRUE, title_sel |-> rule.title_sel, image_sel |-> rule.image_sel,
     para_sel |-> rule.para_sel]

\* the handler ends: resp is what the client receives
Respond(r) ==
    /\ resp' = r
    /\ req' = Idle
    /\ crawl' = NoCrawl
    /\ tasks' = <<>>

\* POST /rules/set.  The behaviours explored edit the rules before the
\* first crawl request.
RulesSet ==
    /\ CanStart /\ started = 0
    /\ \E k \in Keywords, rule \in RuleChoices :
          /\ rules' = [rules EXCEPT ![slugify(k)] = rule]
          /\ resp' = [kind |-> "ok", handler |-> "rules_set", slug |-> slugify(k)]
    /\ UNCHANGED <<store, now, env, bg, req, crawl, tasks, log, started>>

\* DELETE /rules/clear
RulesClear ==
    /\ CanStart /\ started = 0
    /\ \E k \in Keywords :
          /\ rules' = [rules EXCEPT ![slugify(k)] = NoRule]
          /\ resp' = [kind |-> "ok", handler |-> "rules_clear", slug |-> slugify(k)]
    /\ UNCHANGED <<store, now, env, bg, req, crawl, tasks, log, started>>

\* the response of /crawl once every keyword is done; returned and metrics
\* are what the last crawl_keyword call returned
crawl_response(collected, debug) ==
    [ kind |-> "ok", handler |-> "crawl", debug |-> debug,
      returned |-> IF Len(collected) = 0 THEN <<>> ELSE collected[Len(collected)].returned,
      metrics |-> IF Len(collected) = 0 THEN ZeroMetrics ELSE collected[Len(collected)].metrics,
      collected |-> [k \in 1..Len(collected) |-> [slug |-> collected[k].slug, items |-> collected[k].items]],
      stats |-> [k \in 1..Len(collected) |-> [slug |-> collected[k].slug, metrics |-> collected[k].metrics]],
      details |-> IF debug
                  THEN [k \in 1..Len(collected) |-> [slug |-> collected[k].slug, details |-> collected[k].details]]
                  ELSE <<>> ]

\* POST /crawl: the handler up to its first await
CrawlPost ==
    /\ CanStart
    /\ \E kws \in KeywordLists, h1 \in BOOLEAN, img \in BOOLEAN, dbg \in BOOLEAN :
          IF Len(kws) = 0
          THEN /\ resp' = crawl_response(<<>>, dbg)
               /\ UNCHANGED <<req, crawl>>
          ELSE /\ req' = [Idle EXCEPT !.kind = "crawl", !.keywords = kws, !.kw = 1,
                                      !.require_h1 = h1, !.require_img = img, !.debug = dbg,
                                      !.hours_max = HoursMax]
               /\ crawl' = [phase |-> "gnews", keyword |-> kws[1], feed |-> <<>>, links |-> <<>>,
                            final_url |-> Null]
               /\ resp' = NoResp
    /\ started' = started + 1
    /\ UNCHANGED <<store, rules, now, env, bg, tasks, log>>

\* crawl_keyword: the GET of the Google News feed returns one of feeds.  A
\* request that raises and a status that is not 200 leave the links empty.
CkGnewsFrom(feeds) ==
    /\ req.kind = "crawl" /\ crawl.phase = "gnews"
    /\ \E ok \in BOOLEAN, entries \in feeds :
          crawl' = [crawl EXCEPT !.phase = "gdelt",
                                 !.feed = IF ok THEN entries ELSE <<>>,
                                 !.links = IF ok THEN feed_links(entries) ELSE <<>>]
    /\ UNCHANGED <<store, rules, now, env, bg, req, tasks, resp, log, started>>

CkGnews == CkGnewsFrom(SeqsUpTo(GNewsEntries, MaxFeedLen))

\* the accumulator the loop over the results starts from, the clock at t
start_acc(t) ==
    [out |-> <<>>, metrics |-> ZeroMetrics, details |-> <<>>, rows |-> store, now |-> t, log |-> log]

\* res[slug], stats[slug] and dets[slug] of one keyword, with the items
\* crawl_keyword returned
crawl_entry(keyword, acc) ==
    [ slug |-> slugify(keyword),
      items |-> [k \in 1..Len(by_id(acc.out)) |-> brief(by_id(acc.out)[k])],
      returned |-> acc.out,
      metrics |-> acc.metrics,
      details |-> acc.details ]

\* how many values crawl_keyword and crawl_listing_once return: (out,
\* metrics, details) with want_debug, else (out, metrics)
returned_arity(want_debug) == IF want_debug THEN 3 ELSE 2

\* how many values "items, m, d = await ..." unpacks in crawl_post and
\* crawl_site_post
UnpackArity == 3

\* whether that unpacking raises ValueError
unpack_raises(want_debug) == returned_arity(want_debug) # UnpackArity

\* what crawl_post ends with when crawl_keyword returns what the loop left
\* in acc for the last keyword
crawl_post_end(debug, collected, keyword, acc) ==
    IF unpack_raises(debug)
    THEN [kind |-> "raised", handler |-> "crawl", error |-> "ValueError",
          returned |-> acc.out, metrics |-> acc.metrics]
    ELSE crawl_response(Append(collected, crawl_entry(keyword, acc)), debug)

\* crawl_keyword returns what the loop over the results left in acc, and
\* crawl_post goes on: the unpacking of three values, by_id, and the next
\* keyword or the response
KeywordReturn(acc) ==
    /\ store' = acc.rows
    /\ now' = acc.now
    /\ log' = acc.log
    /\ IF unpack_raises(req.debug)
       THEN Respond(crawl_post_end(req.debug, req.collected, crawl.keyword, acc))
       ELSE IF req.kw < Len(req.keywords)
       THEN /\ req' = [req EXCEPT !.kw = @ + 1,
                                   !.collected = Append(@, crawl_entry(crawl.keyword, acc))]
            /\ crawl' = [phase |-> "gnews", keyword |-> req.keywords[req.kw + 1], feed |-> <<>>, links |-> <<>>,
                            final_url |-> Null]
            /\ tasks' = <<>>
            /\ UNCHANGED resp
       ELSE Respond(crawl_post_end(req.debug, req.collected, crawl.keyword, acc))

\* crawl_keyword after both sources: ts = now_utc() and one task per
\* candidate; without candidates nothing is gathered
CkDispatch(links, norm) ==
    IF Len(norm) = 0
    THEN KeywordReturn(aggregate(<<>>, req.debug, start_acc(now + 1)))
    ELSE /\ tasks' = [k \in 1..Len(norm) |->
                        new_task(article_args(norm[k], crawl.keyword, now, NoSelectors))]
         /\ crawl' = [crawl EXCEPT !.phase = "gather", !.links = links]
         /\ now' = now + 1
         /\ UNCHANGED <<store, req, resp, log>>

\* crawl_keyword: the GDELT request returns one of founds (a failure leaves
\* no links); then the candidate filter and the dispatch
CkGdeltFrom(founds) ==
    /\ req.kind = "crawl" /\ crawl.phase = "gdelt"
    /\ \E ok \in BOOLEAN, found \in founds :
          CkDispatch(crawl.links \o (IF ok THEN found ELSE <<>>),
                     keyword_candidates(crawl.links \o (IF ok THEN found ELSE <<>>)))
    /\ UNCHANGED <<rules, env, bg, started>>

CkGdelt == CkGdeltFrom(SeqsUpTo(GdeltLinks, MaxFeedLen))

\* crawl_keyword: asyncio.gather returns
CkFinish ==
    /\ req.kind = "crawl" /\ crawl.phase = "gather" /\ AllDone
    /\ KeywordReturn(aggregate(results, req.debug, start_acc(now)))
    /\ UNCHANGED <<rules, env, bg, started>>

\* ----------------------------------------------------------- /crawl_site
ListingLinks == {U_LIST}

ListSelectors == {Null, SEL_ITEM, SEL_BAD}

\* the first entry of the details of a listing crawl
listing_detail(list_url, info, found) ==
    [link |-> list_url, final_url |-> info.final_url, decision |-> "listing_fetched",
     articles_found |-> found]

\* crawl_site_post after crawl_listing_once returned items, metrics and,
\* with debug, details: the unpacking of three values and the response
SiteReturn(items, metrics, details) ==
    IF unpack_raises(req.debug)
    THEN Respond([kind |-> "raised", handler |-> "crawl_site", error |-> "ValueError",
                  returned |-> items, metrics |-> metrics])
    ELSE Respond([kind |-> "ok", handler |-> "crawl_site", found |-> Len(items), stats |-> metrics,
                  keyword |-> slugify(req.keyword), details |-> details, returned |-> items,
                  metrics |-> metrics])

\* POST /crawl_site: the handler up to its first await
CrawlSite ==
    /\ CanStart
    /\ \E u \in ListingLinks, k \in Keywords, sel \in ListSelectors,
          h1 \in BOOLEAN, img \in BOOLEAN, dbg \in BOOLEAN :
          /\ req' = [Idle EXCEPT !.kind = "crawl_site", !.url = u, !.keyword = k,
                                 !.selector = Or(sel, rules[slugify(k)].list_selector),
                                 !.url_regex = Or(Null, rules[slugify(k)].url_regex),
                                 !.selectors = rule_selectors(rules[slugify(k)]),
                                 !.require_h1 = h1, !.require_img = img, !.debug = dbg]
          /\ crawl' = [phase |-> "listing", keyword |-> k, feed |-> <<>>, links |-> <<>>,
                            final_url |-> Null]
    /\ started' = started + 1
    /\ resp' = NoResp
    /\ UNCHANGED <<store, rules, now, env, bg, tasks, log>>

\* crawl_listing_once after the listing was fetched as f and gave links:
\* one task per link, each with its own now_utc(); without links nothing
\* is gathered
ClDispatch(f, links) ==
    IF Len(links) = 0
    THEN /\ SiteReturn(<<>>, ZeroMetrics, <<listing_detail(req.url, f.info, 0)>>)
         /\ UNCHANGED <<store, now, log>>
    ELSE /\ tasks' = [k \in 1..Len(links) |->
                        new_task(article_args(links[k], req.keyword, now + k - 1, req.selectors))]
         /\ crawl' = [crawl EXCEPT !.phase = "gather", !.links = links,
                                   !.final_url = f.info.final_url]
         /\ now' = now + Len(links)
         /\ UNCHANGED <<store, req, resp, log>>

\* crawl_listing_once after the fetch of the listing: no page ends the
\* crawl with fetch_fail = 1; extract_links_from_listing may raise
ClFetched(f) ==
    IF ~HtmlTruthy(f.html)
    THEN /\ SiteReturn(<<>>, [fetch_fail |-> 1],
                       <<[link |-> req.url, fetch |-> f.info, decision |-> "fetch_fail"]>>)
         /\ UNCHANGED <<store, now, log>>
    ELSE IF listing_raises(f.html, Or(f.info.final_url, req.url), req.selector, req.url_regex)
    THEN /\ Respond([kind |-> "raised", handler |-> "crawl_site", error |-> "Exception",
                     returned |-> <<>>, metrics |-> ZeroMetrics])
         /\ UNCHANGED <<store, now, log>>
    ELSE ClDispatch(f, extract_links_from_listing(f.html, Or(f.info.final_url, req.url),
                                                  req.selector, req.url_regex))

\* crawl_listing_once: the fetch of the listing returns, the network doing
\* one of rs
ClFetchFrom(rs) ==
    /\ req.kind = "crawl_site" /\ crawl.phase = "listing"
    /\ \E r \in rs : ClFetched(fetch_html_ex(req.url, r))
    /\ UNCHANGED <<rules, env, bg, started>>

ClFetch == ClFetchFrom(Web(req.url))

\* the listing crawl's return: what the loop left in acc, the listing's
\* entry put first in the details
ListingReturn(acc) ==
    /\ store' = acc.rows
    /\ now' = acc.now
    /\ log' = acc.log
    /\ SiteReturn(acc.out, acc.metrics,
                  <<listing_detail(req.url, [final_url |-> crawl.final_url], Len(crawl.links))>>
                      \o acc.details)

\* crawl_listing_once: asyncio.gather returns
ClFinish ==
    /\ req.kind = "crawl_site" /\ crawl.phase = "gather" /\ AllDone
    /\ ListingReturn(aggregate(results, req.debug, start_acc(now)))
    /\ UNCHANGED <<rules, env, bg, started>>

\* ------------------------------------------------------------------ /add
\* POST /add: the handler up to its await of process_article
AddLink ==
    /\ CanStart
    /\ \E u \in AddLinks, k \in Keywords, h1 \in BOOLEAN, img \in BOOLEAN :
          /\ req' = [Idle EXCEPT !.kind = "add", !.url = u, !.keyword = k,
                                 !.selectors = rule_selectors(rules[slugify(k)]),
                                 !.require_h1 = h1, !.require_img = img]
          /\ tasks' = <<new_task([ url |-> u, keyword |-> k, pub_dt |-> now, feed_title |-> Null,
                                   feed_source_name |-> Null, require_h1 |-> h1,
                                   require_img |-> img, want_debug |-> FALSE,
                                   selectors |-> rule_selectors(rules[slugify(k)]) ])>>
    /\ now' = now + 1
    /\ started' = started + 1
    /\ resp' = NoResp
    /\ UNCHANGED <<store, rules, env, bg, crawl, log>>

\* add_link_post after process_article: an exception leaves the handler,
\* no item is answered with HTTP 400, an item is upserted and answered
AddFinish ==
    /\ req.kind = "add" /\ AllDone
    /\ IF tasks[1].res.raises
       THEN /\ Respond([kind |-> "raised", handler |-> "add", error |-> "Exception"])
            /\ UNCHANGED <<store, now, log>>
       ELSE IF ~IsItem(tasks[1].res.item)
       THEN /\ Respond([kind |-> "http400", handler |-> "add", reason |-> tasks[1].res.reason])
            /\ UNCHANGED <<store, now, log>>
       ELSE /\ store' = db_upsert(store, tasks[1].res.item, now)
            /\ log' = Append(log, [item |-> tasks[1].res.item, at |-> now])
            /\ now' = now + 1
            /\ Respond([kind |-> "ok", handler |-> "add", id |-> tasks[1].res.item.id,
                         title |-> tasks[1].res.item.title,
                         keyword |-> tasks[1].res.item.keyword])
    /\ UNCHANGED <<rules, env, bg, started>>

\* ------------------------------------------------------ crawls of many links
\* The crawls above run on sources of at most MaxFeedLen links.  Here the
\* same dispatch code runs on sources and listings of up to MaxManyLinks
\* links, more than one crawl may dispatch; the tasks are left where the
\* dispatch created them.
MaxManyLinks == 160

DigitText == <<"0", "1", "2", "3", "4", "5", "6", "7", "8", "9">>

\* str(k) for a natural number k
RECURSIVE Decimal(_)
Decimal(k) == IF k < 10 THEN <<DigitText[k + 1]>> ELSE Decimal(k \div 10) \o <<DigitText[(k % 10) + 1]>>

\* the k-th of the many article links, and its path
ManyPath(k) == <<"/","n","o","t","i","c","i","a","/">> \o Decimal(k)

ManyLink(k) == <<"h","t","t","p","s",":","/","/","s","i","t","e",".","c","o","m">> \o ManyPath(k)

\* a feed of n recent entries: the links 1..n
ManyEntries(n) == [k \in 1..n |-> Entry(ManyLink(k), HoursMax - 1)]

\* what GDELT finds: m links, the first half of which a full feed holds too
ManyFound(m) == [k \in 1..m |-> ManyLink(k + (MaxFeedEntries \div 2))]

\* a listing page with n article links
ManyListing(n) ==
    [BlankPage EXCEPT !.title_tag = <<"N","o","t","i","c","i","a","s">>, !.anchors = [k \in 1..n |-> ManyPath(k)]]

\* the feeds: empty, as long as crawl_keyword reads, and longer
ManyFeeds == {ManyEntries(0), ManyEntries(MaxFeedEntries), ManyEntries(MaxFeedEntries + 10)}

InitCap ==
    /\ store = {}
    /\ rules = [s \in {slugify(k) : k \in Keywords} |-> NoRule]
    /\ now = 1
    /\ env = [use_ai |-> FALSE, key |-> FALSE]
    /\ \E k \in Keywords :
          \/ /\ req = [Idle EXCEPT !.kind = "crawl", !.keywords = <<k>>, !.kw = 1,
                                   !.require_h1 = TRUE, !.debug = TRUE, !.hours_max = HoursMax]
             /\ crawl = [NoCrawl EXCEPT !.phase = "gnews", !.keyword = k]
          \/ /\ req = [Idle EXCEPT !.kind = "crawl_site", !.url = U_LIST, !.keyword = k,
                                   !.selectors = rule_selectors(NoRule),
                                   !.require_h1 = TRUE, !.debug = TRUE]
             /\ crawl = [NoCrawl EXCEPT !.phase = "listing", !.keyword = k]
    /\ tasks = <<>>
    /\ resp = NoResp
    /\ log = <<>>
    /\ started = 1
    /\ bg = BgOff

\* the search feed returns one of the long feeds
CapGnews == CkGnewsFrom(ManyFeeds)

\* GDELT returns up to MaxManyLinks links
CapGdelt == CkGdeltFrom({ManyFound(m) : m \in 0..MaxManyLinks})

\* the listing page holds up to MaxManyLinks article links
CapListing == ClFetchFrom({Ok200(U_LIST, ManyListing(n)) : n \in 0..MaxManyLinks})

NextCap == CapGnews \/ CapGdelt \/ CapListing

SpecCap == InitCap /\ [][NextCap]_vars

\* ------------------------------------------------------ background runner
\* The runner _bg_start creates, beside a crawl a request triggers.  Each
\* crawl gathers its tasks and then upserts the accepted records one
\* db_upsert (one transaction) at a time; the upserts of two crawls fall in
\* any order.  The runner's record:
\*   [disabled, interval, phase, step, pending, cycles, failed, last_run,
\*    summary, slept]
\* phase: "startup" (before _bg_start), "off" (no runner), "cycle" (a crawl
\* of the cycle is awaited), "upsert" (its results are being looped over),
\* "sleep"; step: which crawl of the cycle; pending: its results not yet
\* looped over; cycles and failed: the cycles started and those that
\* raised; last_run and summary: LAST_BG_RUN and LAST_BG_SUMMARY; slept:
\* the minutes of the last sleep.

\* how many cycles of the runner a behaviour holds
MaxCycles == 2

\* the least CRON_INTERVAL_MIN
CronMin == 5

\* the values CRON_INTERVAL_MIN may be set to in the environment
CronEnv == {1, 15}

\* max(5, int(os.getenv("CRON_INTERVAL_MIN", "15")))
cron_interval_min(raw) == IF raw < CronMin THEN CronMin ELSE raw

\* the crawls of one cycle: DEFAULT_KEYWORDS, then DEFAULT_LIST_URLS
BgPlan == <<"keyword", "listing">>

\* the keyword a request crawls for
K_REQ == <<"I","l","h","a","b","e","l","a">>

\* the arguments of the process_article call of a crawl dispatched at t
race_args(url, keyword, t) ==
    [ url |-> url, keyword |-> keyword, pub_dt |-> t, feed_title |-> Null,
      feed_source_name |-> Null, require_h1 |-> TRUE, require_img |-> FALSE,
      want_debug |-> FALSE, selectors |-> NoSelectors ]

\* what that call yields when the page is answered with r
race_result(url, keyword, t, r) == stepped(new_task(race_args(url, keyword, t)), r, Unused, Unused).res

\* what the tasks of a crawl of the runner dispatched at t may yield: U_A,
\* or U_A and U_B
BgBatches(t) ==
    { <<race_result(U_A, <<"L","i","t","o","r","a","l"," ","N","o","r","t","e">>, t, Ok200(U_A, PageObras))>>,
      <<race_result(U_A, <<"L","i","t","o","r","a","l"," ","N","o","r","t","e">>, t, Ok200(U_A, PageObras)),
        race_result(U_B, <<"L","i","t","o","r","a","l"," ","N","o","r","t","e">>, t, Ok200(U_B, PageLd))>> }

\* what the tasks of a crawl a request triggered at t may yield: U_A as it
\* was later, under another keyword, alone or after a page that is not found
ReqBatches(t) ==
    { <<race_result(U_A, K_REQ, t, Ok200(U_A, PageObrasEdited))>>,
      <<race_result(U_A, K_REQ, t, Status(404, U_A)),
        race_result(U_A, K_REQ, t, Ok200(U_A, PageObrasEdited))>> }

\* the runner before the startup event
BgInit(disabled, raw) ==
    [ disabled |-> disabled, interval |-> cron_interval_min(raw), phase |-> "startup",
      step |-> 0, pending |-> <<>>, cycles |-> 0, failed |-> 0, last_run |-> Null,
      summary |-> "none", slept |-> 0 ]

\* the runner at the top of the while loop
bg_cycle(b) == [b EXCEPT !.phase = "cycle", !.step = 1, !.pending = <<>>, !.cycles = @ + 1]

\* the cycle completed at t: LAST_BG_RUN and LAST_BG_SUMMARY are set and
\* the runner sleeps
bg_after_cycle(b, t) ==
    [b EXCEPT !.phase = "sleep", !.step = 0, !.pending = <<>>, !.last_run = iso(t),
              !.summary = "ok"]

\* an exception that ends the runner
bg_after_raise_stop(b, t) ==
    [b EXCEPT !.phase = "off", !.step = 0, !.pending = <<>>, !.failed = @ + 1]

\* except Exception: LAST_BG_RUN is set, LAST_BG_SUMMARY holds the error
\* and the runner sleeps
bg_after_raise(b, t) ==
    [b EXCEPT !.phase = "sleep", !.step = 0, !.pending = <<>>, !.last_run = iso(t),
              !.summary = "error", !.failed = @ + 1]

InitBg ==
    /\ store = {}
    /\ rules = [s \in {slugify(k) : k \in Keywords} |-> NoRule]
    /\ now = 1
    /\ env = [use_ai |-> FALSE, key |-> FALSE]
    /\ req = Idle
    /\ crawl = NoCrawl
    /\ tasks = <<>>
    /\ resp = NoResp
    /\ log = <<>>
    /\ started = 0
    /\ \E disabled \in BOOLEAN, raw \in CronEnv : bg = BgInit(disabled, raw)

\* _bg_start: nothing with DISABLE_BACKGROUND, else the runner is created
\* and enters its first cycle
BgStart ==
    /\ bg.phase = "startup"
    /\ bg' = IF bg.disabled THEN [bg EXCEPT !.phase = "off"] ELSE bg_cycle(bg)
    /\ UNCHANGED <<store, rules, now, env, req, crawl, tasks, resp, log, started>>

\* the crawl the runner awaits has gathered its tasks
BgGather ==
    /\ bg.phase = "cycle"
    /\ \E batch \in BgBatches(now) :
          bg' = [bg EXCEPT !.phase = "upsert", !.pending = batch]
    /\ UNCHANGED <<store, rules, now, env, req, crawl, tasks, resp, log, started>>

\* the crawl the runner awaits raises
BgRaise ==
    /\ bg.phase = "cycle"
    /\ bg' = bg_after_raise(bg, now)
    /\ now' = now + 1
    /\ UNCHANGED <<store, rules, env, req, crawl, tasks, resp, log, started>>

\* one turn of the loop over the results of the runner's crawl
BgUpsert ==
    /\ bg.phase = "upsert" /\ Len(bg.pending) > 0
    /\ store' = aggregate(<<Head(bg.pending)>>, FALSE, start_acc(now)).rows
    /\ log' = aggregate(<<Head(bg.pending)>>, FALSE, start_acc(now)).log
    /\ now' = aggregate(<<Head(bg.pending)>>, FALSE, start_acc(now)).now
    /\ bg' = [bg EXCEPT !.pending = Tail(@)]
    /\ UNCHANGED <<rules, env, req, crawl, tasks, resp, started>>

\* the crawl returns to the runner: the next crawl of the cycle, or the
\* end of the cycle
BgReturn ==
    /\ bg.phase = "upsert" /\ Len(bg.pending) = 0
    /\ IF bg.step < Len(BgPlan)
       THEN /\ bg' = [bg EXCEPT !.phase = "cycle", !.step = @ + 1]
            /\ UNCHANGED now
       ELSE /\ bg' = bg_after_cycle(bg, now)
            /\ now' = now + 1
    /\ UNCHANGED <<store, rules, env, req, crawl, tasks, resp, log, started>>

\* asyncio.sleep(CRON_INTERVAL_MIN * 60) is over: the next cycle
BgWake ==
    /\ bg.phase = "sleep" /\ bg.cycles < MaxCycles
    /\ bg' = [bg_cycle(bg) EXCEPT !.slept = bg.interval]
    /\ now' = now + bg.interval
    /\ UNCHANGED <<store, rules, env, req, crawl, tasks, resp, log, started>>

\* a request triggers a crawl, whose tasks are gathered
RaceCrawl ==
    /\ CanStart /\ bg.phase # "startup"
    /\ \E batch \in ReqBatches(now) :
          tasks' = [k \in 1..Len(batch) |->
                      [new_task(race_args(U_A, K_REQ, now)) EXCEPT !.pc = "done", !.res = batch[k]]]
    /\ req' = [Idle EXCEPT !.kind = "crawl", !.keywords = <<K_REQ>>, !.kw = 1,
                           !.require_h1 = TRUE, !.debug = TRUE]
    /\ crawl' = [NoCrawl EXCEPT !.phase = "gather", !.keyword = K_REQ]
    /\ started' = started + 1
    /\ UNCHANGED <<store, rules, now, env, bg, resp, log>>

\* one turn of the loop over the results of the request's crawl
RaceUpsert ==
    /\ req.kind = "crawl" /\ Len(tasks) > 0
    /\ store' = aggregate(<<Head(tasks).res>>, FALSE, start_acc(now)).rows
    /\ log' = aggregate(<<Head(tasks).res>>, FALSE, start_acc(now)).log
    /\ now' = aggregate(<<Head(tasks).res>>, FALSE, start_acc(now)).now
    /\ tasks' = Tail(tasks)
    /\ UNCHANGED <<rules, env, bg, req, crawl, resp, started>>

\* the crawl returns to its handler
RaceReturn ==
    /\ req.kind = "crawl" /\ Len(tasks) = 0
    /\ req' = Idle
    /\ crawl' = NoCrawl
    /\ resp' = [kind |-> "ok", handler |-> "crawl"]
    /\ UNCHANGED <<store, rules, now, env, bg, tasks, log, started>>

NextBg ==
    \/ BgStart
    \/ BgGather
    \/ BgRaise
    \/ BgUpsert
    \/ BgReturn
    \/ BgWake
    \/ RaceCrawl
    \/ RaceUpsert
    \/ RaceReturn

SpecBg == InitBg /\ [][NextBg]_vars

\* the runner alone
NextRunner ==
    \/ BgStart
    \/ BgGather
    \/ BgRaise
    \/ BgUpsert
    \/ BgReturn
    \/ BgWake

\* the runner under the event loop: its sleep ends; the crawl it awaits
\* ends, every request in it having a timeout (where it would never
\* return, it raises); its loop over the results goes on
SpecBgFair ==
    /\ InitBg /\ [][NextRunner]_vars
    /\ WF_vars(BgWake) /\ WF_vars(BgRaise) /\ WF_vars(BgUpsert) /\ WF_vars(BgReturn)

\* ------------------------------------------------------------ properties
\* the tasks that have returned or raised
Done == {i \in 1..Len(tasks) : tasks[i].pc = "done"}

\* the tasks that returned a record
Accepted == {i \in Done : IsItem(tasks[i].res.item)}

\* how a gathered task is counted: ok, its rejection reason, or fetch_fail
\* when it raised
counted_as(res) ==
    IF res.raises THEN "fetch_fail" ELSE IF IsItem(res.item) THEN "ok" ELSE res.reason

\* a crawl whose tasks asyncio.gather is about to return
Gathered == req.kind \in {"crawl", "crawl_site"} /\ crawl.phase = "gather" /\ AllDone

\* C1: when the fetch of a candidate URL fails, process_article rejects the
\* candidate with reason fetch_fail, whatever require_h1 and require_img are.
C1_FetchFailReason ==
    \A i \in Done :
        ~tasks[i].d.fetch.ok => ~tasks[i].res.raises /\ tasks[i].res.reason = "fetch_fail"

\* C2: the /crawl and /crawl_site handlers return a response and never
\* raise, for every value of debug.
C2_HandlersReturn ==
    resp.handler \in {"crawl", "crawl_site"} => resp.kind # "raised"

C4_OneTaskPerFinalUrl ==
    req.kind = "crawl" =>
        \A i \in Accepted : \A j \in Accepted :
            i # j => tasks[i].res.item.url # tasks[j].res.item.url

\* title and title.strip() fails
title_missing(title) == ~Truthy(title) \/ Strip(title) = <<>>

\* the first rejection that applies in the order no_h1, no_image,
\* no_paragraphs; "ok" when none does
first_rejection(a, d) ==
    IF a.require_h1 /\ title_missing(d.title) THEN "no_h1"
    ELSE IF a.require_img /\ ~Truthy(d.image) THEN "no_image"
    ELSE IF d.paragraphs = <<>> THEN "no_paragraphs"
    ELSE "ok"

\* C5: the gate rejects with the first of no_h1, no_image, no_paragraphs
\* that applies, in this order, and accepts when none applies; so a draft
\* with title and paragraphs and no image is rejected with no_image when
\* require_img is set.
C5_GateOrder ==
    \A i \in Done :
        (~tasks[i].d.raises /\ tasks[i].d.title # NonStr) =>
            /\ decision(tasks[i].a, tasks[i].d) = first_rejection(tasks[i].a, tasks[i].d)
            /\ first_rejection(tasks[i].a, tasks[i].d) # "ok" =>
                   /\ ~tasks[i].res.raises
                   /\ ~IsItem(tasks[i].res.item)
                   /\ tasks[i].res.reason = first_rejection(tasks[i].a, tasks[i].d)
            /\ (first_rejection(tasks[i].a, tasks[i].d) = "ok" /\ ~tasks[i].res.raises) =>
                   IsItem(tasks[i].res.item)

\* with both flags set, one task was rejected with no_image on a draft with
\* title and paragraphs, and another with no_h1 on a draft with nothing
C5_Witness ==
    \E i \in Done : \E j \in Done :
        /\ tasks[i].a.require_h1 /\ tasks[i].a.require_img
        /\ ~title_missing(tasks[i].d.title)
        /\ tasks[i].d.paragraphs # <<>>
        /\ ~Truthy(tasks[i].d.image)
        /\ tasks[i].res.reason = "no_image"
        /\ title_missing(tasks[j].d.title)
        /\ ~Truthy(tasks[j].d.image)
        /\ tasks[j].d.paragraphs = <<>>
        /\ tasks[j].res.reason = "no_h1"

\* C6: setting require_h1 or require_img can turn an acceptance into a
\* rejection and never a rejection into an acceptance: a draft the gate
\* accepts under some flags is accepted under any weaker flags.
C6_GateMonotonic ==
    \A i \in Done :
        ~tasks[i].d.raises =>
            \A h1 \in BOOLEAN, img \in BOOLEAN, h2 \in BOOLEAN, img2 \in BOOLEAN :
                ( /\ h1 => h2
                  /\ img => img2
                  /\ gate(tasks[i].d.title, tasks[i].d.image, tasks[i].d.paragraphs, h2, img2) = "ok" )
                => gate(tasks[i].d.title, tasks[i].d.image, tasks[i].d.paragraphs, h1, img) = "ok"

\* a record accepted without the flags whose draft either flag alone rejects
C6_Witness ==
    \E i \in Accepted :
        /\ ~tasks[i].a.require_h1 /\ ~tasks[i].a.require_img
        /\ gate(tasks[i].d.title, tasks[i].d.image, tasks[i].d.paragraphs, TRUE, FALSE) = "no_h1"
        /\ gate(tasks[i].d.title, tasks[i].d.image, tasks[i].d.paragraphs, FALSE, TRUE) = "no_image"

\* the upserts of a url, in the order they were made
upserts_of(url) == {k \in 1..Len(log) : log[k].item.url = url}

first_upsert(url) == log[CHOOSE k \in upserts_of(url) : \A m \in upserts_of(url) : k <= m]

last_upsert(url) == log[CHOOSE k \in upserts_of(url) : \A m \in upserts_of(url) : m <= k]

\* C7: the table holds one row per upserted url; its id is stable_id(url),
\* its id and created_at are those of the first upsert of the url, and its
\* content columns those of the latest.
C7_UpsertKeepsIdentity ==
    /\ \A k \in 1..Len(log) : \E r \in store : r.url = log[k].item.url
    /\ \A r \in store : \A q \in store : r.url = q.url => r = q
    /\ \A r \in store :
          /\ upserts_of(r.url) # {}
          /\ r.id = stable_id(r.url)
          /\ r.id = first_upsert(r.url).item.id
          /\ r.created_at = iso(first_upsert(r.url).at)
          /\ r.title = last_upsert(r.url).item.title
          /\ r.image = last_upsert(r.url).item.image
          /\ json_loads(r.paragraphs) = last_upsert(r.url).item.paragraphs
          /\ r.source_name = last_upsert(r.url).item.source_name
          /\ r.published_at = last_upsert(r.url).item.published_at
          /\ r.keyword = last_upsert(r.url).item.keyword

\* a url was upserted twice with different titles and images
C7_Witness ==
    \E r \in store :
        /\ Cardinality(upserts_of(r.url)) >= 2
        /\ first_upsert(r.url).item.title # last_upsert(r.url).item.title
        /\ first_upsert(r.url).item.image # last_upsert(r.url).item.image
        /\ first_upsert(r.url).at # last_upsert(r.url).at
        /\ r.title = last_upsert(r.url).item.title

\* C8: no paragraph of a record process_article returns is a text that
\* clean_paragraph rejects, the rewriting step included.
C8_ParagraphsClean ==
    \A i \in Accepted :
        \A k \in 1..Len(tasks[i].res.item.paragraphs) :
            clean_paragraph(tasks[i].res.item.paragraphs[k]) # Null

\* C9: unwrap_special_links is idempotent on every link submitted, nested
\* redirect links included.
C9_UnwrapIdempotent ==
    \A i \in 1..Len(tasks) :
        unwrap_special_links(unwrap_special_links(tasks[i].a.url))
            = unwrap_special_links(tasks[i].a.url)

\* what the gathered tasks yield when want_debug is dbg
results_with(dbg) ==
    [i \in 1..Len(tasks) |->
        pa_decide([tasks[i].a EXCEPT !.want_debug = dbg], tasks[i].d, tasks[i].ai, env.use_ai)]

\* the end of the /crawl request being handled were its debug flag dbg
crawl_with(dbg) ==
    crawl_post_end(dbg, req.collected, crawl.keyword,
                   aggregate(results_with(dbg), dbg, start_acc(now)))

\* the rows of the table after that end
rows_with(dbg) == aggregate(results_with(dbg), dbg, start_acc(now)).rows

\* C10: a /crawl request ends the same with debug on and off: answered
\* either way, with the same items and metrics and the same rows stored.
C10_DebugInvisible ==
    (req.kind = "crawl" /\ Gathered) =>
        /\ crawl_with(TRUE).kind = crawl_with(FALSE).kind
        /\ crawl_with(TRUE).returned = crawl_with(FALSE).returned
        /\ crawl_with(TRUE).metrics = crawl_with(FALSE).metrics
        /\ rows_with(TRUE) = rows_with(FALSE)

\* C11: the rewriting step never costs a record: a draft that passed the
\* gate yields an accepted item whatever the rewriting service does, and
\* after a timeout, an HTTP error, a malformed reply or without the API
\* key the item holds the title and paragraphs of the draft.
C11_RewriteFailsOpen ==
    \A i \in Done :
        ( /\ ~tasks[i].d.raises
          /\ tasks[i].d.title # NonStr
          /\ decision(tasks[i].a, tasks[i].d) = "ok" )
        => /\ ~tasks[i].res.raises
           /\ IsItem(tasks[i].res.item)
           /\ (~tasks[i].ai.key \/ ~tasks[i].ai.http_ok \/ tasks[i].ai.json = "bad") =>
                  /\ tasks[i].res.item.title = Take(Or(tasks[i].d.title, <<>>), MaxTitleLen)
                  /\ tasks[i].res.item.paragraphs = tasks[i].d.paragraphs

\* the sum of the five counters
metrics_sum(m) == m.ok + m.fetch_fail + m.no_h1 + m.no_image + m.no_paragraphs

gdelt_part == SubSeq(crawl.links, Len(feed_links(crawl.feed)) + 1, Len(crawl.links))

\* C19: a search-feed entry published more than hours_max hours ago is
\* never dispatched: no task of a keyword crawl has the link of such an
\* entry, unless GDELT gave the same link.
C19_RecentEntriesOnly ==
    req.kind = "crawl" =>
        \A k \in 1..Len(crawl.feed) :
            crawl.feed[k].age > req.hours_max =>
                \A i \in 1..Len(tasks) :
                    tasks[i].a.url = crawl.feed[k].link =>
                        \E m \in 1..Len(gdelt_part) : gdelt_part[m] = crawl.feed[k].link

\* C13: the tasks of one crawl_keyword or crawl_listing_once call are never
\* more than MaxCandidates, however many links the sources or the listing
\* give.
C13_TasksCapped == Len(tasks) <= MaxCandidates

\* a crawl that was given more links than MaxCandidates and dispatched
\* MaxCandidates tasks
C13_Witness ==
    /\ crawl.phase = "gather"
    /\ Len(crawl.links) > MaxCandidates
    /\ Len(tasks) = MaxCandidates

\* C14: every record process_article returns and every row of the table
\* has at least one paragraph and a title of at most MaxTitleLen
\* characters, the rewriting step included.
C14_RecordShape ==
    /\ \A i \in Accepted :
          /\ Len(tasks[i].res.item.paragraphs) > 0
          /\ Len(tasks[i].res.item.title) <= MaxTitleLen
    /\ \A r \in store :
          /\ Len(json_loads(r.paragraphs)) > 0
          /\ Len(r.title) <= MaxTitleLen

\* a row whose title was cut to MaxTitleLen characters
C14_Witness ==
    \E r \in store :
        /\ r.title = Take(T_LONG, MaxTitleLen)
        /\ Len(r.title) = MaxTitleLen
        /\ Len(json_loads(r.paragraphs)) > 0

\* the fetches the tasks have made so far: what fetch_html_ex returned for
\* the page, for the Google News target and for the AMP page
fetches_of(t) ==
    (IF t.r1 = Unused THEN {}
     ELSE {fetch_html_ex(unwrap_special_links(t.a.url), t.r1)})
    \cup (IF t.r2 = Unused THEN {}
          ELSE {fetch_html_ex(pa_fetch(t.a.url, t.r1, Unused).ext, t.r2)})
    \cup (IF t.r3 = Unused THEN {} ELSE {fetch_html_ex(amp_url_of(t), t.r3)})

Fetches == UNION {fetches_of(tasks[i]) : i \in 1..Len(tasks)}

\* C15: whenever fetch_html_ex reports ok, the body it returns is not
\* empty and the status is at least 200 and below 300.
C15_OkMeansBody ==
    \A f \in Fetches :
        f.info.ok => /\ HtmlTruthy(f.html)
                     /\ 200 <= f.info.status /\ f.info.status < 300

\* C16: fetch_html_ex reports ok only for a content type of the HTML
\* family, and whenever it does not report ok (the request raised, the
\* status is not 2xx, the content type is not HTML) info.error is a
\* non-empty text.
C16_FailureHasDiagnostic ==
    \A f \in Fetches :
        /\ f.info.ok => IsHtmlFamily(f.info.ctype)
        /\ ~f.info.ok => Truthy(f.info.error)

\* the <p> texts of the pages the tasks have fetched
RawParagraphs ==
    UNION { {f.html.root_ps[k] : k \in 1..Len(f.html.root_ps)} :
              f \in {g \in Fetches : HtmlTruthy(g.html)} }

\* a text that is one bare URL
IsBareUrl(txt) ==
    /\ StartsWith(Lower(txt), <<"h","t","t","p",":","/","/">>) \/ StartsWith(Lower(txt), <<"h","t","t","p","s",":","/","/">>)
    /\ ~Contains(txt, <<" ">>)

\* the five cases of rejection, on the whitespace-normalised text
described_rejection(txt) ==
    \/ txt = <<>>
    \/ Len(txt) < MinParagraphLen
    \/ \E b \in BAD_SNIPPETS : Contains(Lower(txt), b)
    \/ MatchesCtaVerb(Lower(txt))
    \/ IsBareUrl(txt)

\* C17: clean_paragraph returns None exactly for a text that, once its
\* whitespace is normalised, is empty, shorter than MinParagraphLen,
\* holds a phrase of BAD_SNIPPETS, begins with a call-to-action verb or
\* is a bare URL; it returns every other text whitespace-normalised.
C17_RejectionCases ==
    \A p \in RawParagraphs :
        IF described_rejection(Strip(CollapseWs(p)))
        THEN clean_paragraph(p) = Null
        ELSE clean_paragraph(p) = Strip(CollapseWs(p))

\* a finished task in which a custom selector made the selector engine raise
selector_failed(t) ==
    /\ t.pc = "done"
    /\ pa_selectors(pa_fetch(t.a.url, t.r1, t.r2).html, t.a.selectors).raises
    /\ t.res.raises

\* C18: when a title_sel, image_sel or para_sel that the selector engine
\* rejects made a task of a crawl fail, the crawl ends in a hard failure
\* for its caller: the handler raises, it does not go on to answer with
\* the failure counted among the outcomes.  (A /crawl without debug is
\* left out: there the handler raises on unpacking, whatever the tasks did.)
C18_BadSelectorPropagates ==
    [][ ( /\ Gathered
          /\ crawl'.phase # "gather"
          /\ ~(req.kind = "crawl" /\ unpack_raises(req.debug))
          /\ \E i \in Done : selector_failed(tasks[i]) )
        => resp'.kind = "raised" ]_vars

\* C20: from a page whose JSON-LD NewsArticle block holds a headline, an
\* image and an articleBody of two paragraphs, the draft takes the
\* headline as title, the image of the block made absolute against the
\* base URL, and the two paragraphs of the articleBody, the later stages
\* adding nothing.
C20_SchemaDraft ==
    \A i \in Done :
        (tasks[i].r1.body = PageLd /\ tasks[i].d.fetch.ok /\ ~tasks[i].d.raises)
        => /\ tasks[i].d.title = LdBalsa.headline
           /\ tasks[i].d.image = absolutize_url(LdBalsa.image, tasks[i].d.base_for_abs)
           /\ tasks[i].d.paragraphs = <<P_BALSA, P_TURISTAS>>

\* the page a task extracts from: the fetched page, or the page the
\* Google News link led to
page_of(t) == pa_fetch(t.a.url, t.r1, t.r2).html

\* the finished tasks whose paragraphs paragraphs_from_html had to find:
\* the page was fetched, nothing raised, and neither the paragraph
\* selector nor the JSON-LD block gave any
Cascaded ==
    {i \in Done :
        /\ HtmlTruthy(page_of(tasks[i])) /\ ~tasks[i].d.raises
        /\ ~pa_selectors(page_of(tasks[i]), tasks[i].a.selectors).raises
        /\ Len(pa_selectors(page_of(tasks[i]), tasks[i].a.selectors).paragraphs) = 0
        /\ Len(parse_schema_org(page_of(tasks[i])).paragraphs) = 0}

\* C21: the cascade only fills gaps; in particular the paragraphs the
\* first stage of paragraphs_from_html found (the <p> of the content root)
\* are still among the draft's paragraphs after every later stage has run.
C21_CascadeOnlyFills ==
    \A i \in Cascaded :
        Range(CleanAll(page_of(tasks[i]).root_ps)) \subseteq Range(tasks[i].d.paragraphs)

\* the finished tasks that applied custom selectors to a fetched page
Selected ==
    {i \in Done :
        /\ HtmlTruthy(page_of(tasks[i])) /\ tasks[i].a.selectors.given
        /\ ~pa_selectors(page_of(tasks[i]), tasks[i].a.selectors).raises
        /\ ~tasks[i].d.raises /\ ~tasks[i].d.amp_used}

\* C22: structured data comes before the custom selectors: where the
\* page has a JSON-LD headline and the title selector matches, the
\* draft's title is the headline; where it has a JSON-LD articleBody and
\* the paragraph selector matches, the draft's paragraphs are those of
\* the articleBody.
C22_SchemaBeforeSelectors ==
    \A i \in Selected :
        /\ ( /\ Truthy(parse_schema_org(page_of(tasks[i])).headline)
             /\ Truthy(pa_selectors(page_of(tasks[i]), tasks[i].a.selectors).title) )
           => tasks[i].d.title = parse_schema_org(page_of(tasks[i])).headline
        /\ ( /\ Len(parse_schema_org(page_of(tasks[i])).paragraphs) > 0
             /\ Len(pa_selectors(page_of(tasks[i]), tasks[i].a.selectors).paragraphs) > 0 )
           => tasks[i].d.paragraphs = parse_schema_org(page_of(tasks[i])).paragraphs

\* what the page gave a task before the AMP fallback
before_amp(t) == pa_extract(t.a, pa_fetch(t.a.url, t.r1, t.r2))

\* the AMP fallback applies to a task: the page was fetched, the cascade
\* left no paragraph and the page declares an AMP version
amp_wanted(t) ==
    /\ HtmlTruthy(page_of(t))
    /\ Len(before_amp(t).paragraphs) = 0
    /\ Truthy(page_of(t).amphtml)

\* the draft of t holds the title and the image found before the fallback
amp_kept(t, d1) ==
    /\ Truthy(d1.title) => t.d.title = d1.title
    /\ Truthy(d1.image) => t.d.image = absolutize_url(d1.image, t.d.base_for_abs)

\* C23: a task fetches the AMP page at most once, and only when the
\* cascade left no paragraph and the page declares an amphtml link; after
\* the fallback the draft still holds the title and the image found on
\* the original page.
C23_AmpFallback ==
    [][ \A i \in 1..Len(tasks) :
          (i <= Len(tasks') /\ tasks'[i].a = tasks[i].a /\ tasks'[i] # tasks[i])
          => /\ tasks'[i].pc = "amp"
                  => tasks[i].pc \in {"fetch", "follow"} /\ amp_wanted(tasks'[i])
             /\ tasks[i].pc = "amp"
                  => /\ tasks'[i].pc \in {"rewrite", "done"}
                     /\ tasks'[i].d.amp_used
                     /\ ~tasks'[i].d.raises => amp_kept(tasks'[i], before_amp(tasks'[i]))
             /\ (tasks[i].pc # "amp" /\ tasks'[i].pc \in {"rewrite", "done"}
                    /\ tasks[i].pc \in {"fetch", "follow"})
                  => ~tasks'[i].d.amp_used ]_vars

\* the AMP page of an article gave the paragraphs and has a title and an
\* image of its own, and the draft holds those of the original page
C23_Witness ==
    \E i \in Done :
        /\ tasks[i].d.amp_used /\ ~tasks[i].d.raises
        /\ tasks[i].r1.body = PageAmpLink /\ tasks[i].r3.body = PageAmp
        /\ HtmlTruthy(fetch_html_ex(amp_url_of(tasks[i]), tasks[i].r3).html)
        /\ title_from_html(PageAmp) # title_from_html(PageAmpLink)
        /\ tasks[i].d.title = title_from_html(PageAmpLink)
        /\ image_from_html_best(PageAmp, tasks[i].d.base_for_abs) # tasks[i].d.image
        /\ tasks[i].d.image = image_from_html_best(PageAmpLink, U_B)
        /\ tasks[i].d.paragraphs = paragraphs_from_html(PageAmp)

\* C24: when the fetch of a candidate ends on Google News, the record is
\* extracted from the page its first external link leads to and carries
\* that page's URL; no record has the Google News page as its url.
C24_AggregatorDereferenced ==
    \A i \in Accepted :
        is_google_news(tasks[i].d.fetch.final_url)
        => /\ ~is_google_news(tasks[i].res.item.url)
           /\ pa_fetch(tasks[i].a.url, tasks[i].r1, tasks[i].r2).final_url_used # Null
           /\ ~tasks[i].d.amp_used
                => tasks[i].res.item.url
                     = pa_fetch(tasks[i].a.url, tasks[i].r1, tasks[i].r2).final_url_used

\* the post-redirect URL of the article page of a task: that of the first
\* fetch, or that of the page the Google News link led to
article_url(t) == pa_fetch(t.a.url, t.r1, t.r2).base_for_abs

\* C26: the url of a record is the final URL of the article page itself
\* and its id the id of that URL, also when the AMP fallback gave the
\* paragraphs.
C26_UrlIsArticleUrl ==
    \A i \in Accepted :
        /\ tasks[i].res.item.url = article_url(tasks[i])
        /\ tasks[i].res.item.id = stable_id(article_url(tasks[i]))

\* the finished tasks that extracted from a fetched page without raising
\* and without the AMP fallback
Extracted ==
    {i \in Done :
        /\ HtmlTruthy(page_of(tasks[i])) /\ ~tasks[i].d.raises /\ ~tasks[i].d.amp_used
        /\ ~pa_selectors(page_of(tasks[i]), tasks[i].a.selectors).raises}

\* C27: where the title selector is absent or matched nothing and the
\* page has a title that title_from_html resolves, the draft's title is
\* that title, also when the paragraph selector gave the paragraphs; the
\* task is not rejected as no_h1 when that title is not blank.
C27_TitleAlwaysResolved ==
    \A i \in Extracted :
        ( /\ ~Truthy(pa_selectors(page_of(tasks[i]), tasks[i].a.selectors).title)
          /\ Truthy(title_from_html(page_of(tasks[i]))) )
        => /\ tasks[i].d.title = title_from_html(page_of(tasks[i]))
           /\ Len(Strip(title_from_html(page_of(tasks[i])))) > 0
                => tasks[i].res.reason # "no_h1"

\* C28: a record made with require_h1 has a title that is not blank and
\* a record made with require_img has an image, the rewriting step having
\* run or not.
C28_GateHoldsForRecord ==
    \A i \in Accepted :
        /\ tasks[i].a.require_h1 => Len(Strip(tasks[i].res.item.title)) > 0
        /\ tasks[i].a.require_img => Truthy(tasks[i].res.item.image)

\* no text occurs twice in ps
NoRepeats(ps) == \A j, k \in 1..Len(ps) : ps[j] = ps[k] => j = k

\* C30: every record process_article returns has at most MaxParagraphs
\* paragraphs and no two equal ones, whichever stage filled the list.
C30_ParagraphsCappedDistinct ==
    \A i \in Accepted :
        /\ Len(tasks[i].res.item.paragraphs) <= MaxParagraphs
        /\ NoRepeats(tasks[i].res.item.paragraphs)

\* the content columns of a row, and what an item would set them to
row_content(r) ==
    [title |-> r.title, image |-> r.image, paragraphs |-> json_loads(r.paragraphs),
     source_name |-> r.source_name, published_at |-> r.published_at, keyword |-> r.keyword]

item_content(it) ==
    [title |-> it.title, image |-> it.image, paragraphs |-> it.paragraphs,
     source_name |-> it.source_name, published_at |-> it.published_at, keyword |-> it.keyword]

\* every upserted url has exactly one row, with the identity of its first
\* upsert and the whole content of its last
RaceStore ==
    \A k \in 1..Len(log) :
        /\ Cardinality({r \in store : r.url = log[k].item.url}) = 1
        /\ \A r \in store :
              r.url = log[k].item.url
              => /\ r.id = first_upsert(r.url).item.id
                 /\ r.created_at = iso(first_upsert(r.url).at)
                 /\ row_content(r) = item_content(last_upsert(r.url).item)

\* a step upserts at most one record, and leaves the rows of other urls
\* as they were
RaceFrame ==
    /\ log' = log => store' = store
    /\ log' # log
         => /\ Len(log') = Len(log) + 1 /\ SubSeq(log', 1, Len(log)) = log
            /\ \A r \in store : r.url # log'[Len(log')].item.url => r \in store'
            /\ \A r \in store' : r.url # log'[Len(log')].item.url => r \in store

\* C25: however the upserts of the runner's crawls and of a request's
\* crawl interleave, the table holds exactly one row per upserted url,
\* with the id and created_at of its first upsert and the content columns,
\* keyword included, of the upsert that ran last, never a mix of two;
\* and an upsert changes no row of another url.
C25_RaceHarmless == []RaceStore /\ [][RaceFrame]_vars

\* the runner is in the middle of its loop, having upserted a url that
\* the request's crawl, not yet returned, then upserted under its own
\* keyword
C25_Witness ==
    /\ bg.phase = "upsert" /\ Len(bg.pending) > 0
    /\ req.kind = "crawl"
    /\ \E r \in store :
          /\ Cardinality(upserts_of(r.url)) >= 2
          /\ first_upsert(r.url).item.keyword = slugify(<<"L","i","t","o","r","a","l"," ","N","o","r","t","e">>)
          /\ last_upsert(r.url).item.keyword = slugify(K_REQ)
          /\ r.keyword = slugify(K_REQ)
          /\ r.title = last_upsert(r.url).item.title
          /\ r.created_at = iso(first_upsert(r.url).at)
          /\ first_upsert(r.url).at # last_upsert(r.url).at

\* with DISABLE_BACKGROUND no cycle ever runs; without it the runner is
\* never off; the interval is never below CronMin
BgAlive ==
    /\ bg.disabled => bg.phase \in {"startup", "off"} /\ bg.cycles = 0 /\ bg.last_run = Null
    /\ (~bg.disabled /\ bg.phase # "startup") => bg.phase \in {"cycle", "upsert", "sleep"}
    /\ bg.phase # "off" => bg.interval >= CronMin

\* a cycle ends, completed or raised, with LAST_BG_RUN set to the instant
\* and the runner asleep; a sleep ends, after the interval, in a new cycle
BgLoop ==
    /\ (bg.phase \in {"cycle", "upsert"} /\ bg'.phase \notin {"cycle", "upsert"})
         => /\ bg'.phase = "sleep"
            /\ bg'.last_run = iso(now) /\ bg'.last_run # bg.last_run
            /\ bg'.cycles = bg.cycles
    /\ (bg.phase = "sleep" /\ bg'.phase # "sleep")
         => /\ bg'.phase = "cycle" /\ bg'.cycles = bg.cycles + 1
            /\ now' - now = bg.interval /\ now' - now >= CronMin

\* C29: the runner never stops by itself.  Every cycle, completed or
\* raised, ends with LAST_BG_RUN updated and a sleep of CRON_INTERVAL_MIN
\* minutes, never less than CronMin, and every sleep (within the bound on
\* cycles) is followed by another cycle, also after a cycle that raised;
\* with DISABLE_BACKGROUND no cycle ever runs.
C29_RunnerNeverStops ==
    /\ []BgAlive
    /\ [][BgLoop]_vars
    /\ \A c \in 1..MaxCycles : (bg.phase \in {"cycle", "upsert"} /\ bg.cycles = c)
                                   ~> (bg.phase = "sleep" /\ bg.cycles = c)
    /\ \A c \in 1..(MaxCycles - 1) : (bg.phase = "sleep" /\ bg.cycles = c)
                                         ~> (bg.phase = "cycle" /\ bg.cycles = c + 1)

\* a cycle runs after one that raised, the sleep between them having
\* lasted CronMin minutes where the environment asked for less
C29_Witness ==
    /\ bg.phase = "cycle" /\ bg.cycles >= 2
    /\ bg.failed >= 1 /\ bg.summary = "error" /\ bg.last_run # Null
    /\ bg.slept = CronMin /\ bg.interval = cron_interval_min(1)

Next ==
    \/ RulesSet
    \/ RulesClear
    \/ CrawlPost
    \/ CkGnews
    \/ CkGdelt
    \/ CkFinish
    \/ CrawlSite
    \/ ClFetch
    \/ ClFinish
    \/ AddLink
    \/ AddFinish
    \/ \E i \in 1..Len(tasks) : TaskFetch(i)
    \/ \E i \in 1..Len(tasks) : TaskFollow(i)
    \/ \E i \in 1..Len(tasks) : TaskAmp(i)
    \/ \E i \in 1..Len(tasks) : TaskRewrite(i)

Spec == Init /\ [][Next]_vars

====
